---- MODULE Spec2Model ----
(***************************************************************************)
(* Invoice lifecycle engine of MWALIMU HOMES (invoiceGeneration.ts):       *)
(* generateMonthlyInvoices and finalizePendingInvoices over the tables     *)
(* leases, invoiceGenerationLogs, pendingInvoices and invoices.            *)
(*                                                                         *)
(* Both functions are async: every `await db....` is one storage statement *)
(* and a point where other invocations interleave.  Every statement may    *)
(* throw (a storage fault); an invocation that crashes simply takes no     *)
(* further step.  Money is counted in cents.                               *)
(***************************************************************************)
EXTENDS Integers, Sequences, FiniteSets, TLC

\* ---------------------------------------------------------------- bounds
MaxLeases == 2
MaxRuns == 2
MaxCalls == 2
MaxMonth == 1
NumSuffixes == 2
MaxCents == 2000
MaxAlphabet == 4
MaxYears == 2
MaxTenants == 2
MaxRows == 2
MaxUploads == 2
MaxUploadCalls == 2
MaxPayments == 2
MaxInvoices == 2
MaxPayCalls == 2
MaxOtps == 2
MaxVerifiers == 2
MaxVerifyCalls == 6
MaxOtpClock == 2
MaxEditLen == 4
MaxEditAlphabet == 2
MaxUnits == 2
MaxLeaseRows == 3

LeaseIds == 1..MaxLeases
Runs == 1..MaxRuns
Calls == 1..MaxCalls
Suffixes == 1..NumSuffixes

\* ------------------------------------------------------------ the schema
LeaseStatus == {"active", "terminated", "expired"}

\* The terms the lease rows may carry, (monthlyRent, serviceCharge) in cents,
\* one tuple per portfolio.  In the second portfolio the last lease does not
\* fit the DECIMAL column once summed.
Terms(rent, charge) == [monthlyRent |-> rent, serviceCharge |-> charge]
Portfolios ==
    { [l \in LeaseIds |-> Terms(1000 \div l, 50 * (l % 2))],
      [l \in LeaseIds |-> IF l = MaxLeases THEN Terms(MaxCents, 1)
                                            ELSE Terms(1000 \div l, 50)] }

\* decimal(10,2): the largest value a money column stores, scaled down.
DecimalMax == MaxCents

\* The first year of the model's clock.
FirstYear == 2025

\* `(logEntry as any).insertId`: the insert goes through drizzle-orm/mysql2,
\* whose result is not in this repository; the cast says that its declared
\* type has no insertId.  Both drivers are modelled: one whose result
\* carries insertId, and one whose result is the [header, fields] pair, on
\* which .insertId is undefined.
VARIABLES
    insertResultHasId,  \* whether the driver's insert result carries .insertId
    now,                \* the calendar month the clock was last read at
    leases,             \* leases table: id -> row
    logs,               \* invoiceGenerationLogs table: sequence, index = id
    pendingInvoices,    \* pendingInvoices table: set of rows
    invoices,           \* invoices table: set of rows
    gen,                \* invocations of generateMonthlyInvoices
    fin,                \* invocations of finalizePendingInvoices
    finalizedOk,        \* history: the log ids a call has returned success for
    numberArgs,         \* the clock and the nanoid() value of one invoice number
    invoiceNumber,      \* the invoice number built from them, <<>> before
    tenants,            \* tenants table, in the order a fetch returns it
    match,              \* one call of autoMatchPaymentToTenant
    csvFeed,            \* history: the header and rows a feed was written from
    csvText,         \* the text handed to parseCSVPayments
    parsed,             \* what parseCSVPayments returned, once it has
    importedPayments,   \* importedPayments table: rows in order of their id
    paymentUploads,     \* paymentUploads table: the counters of each row
    up,                 \* invocations of processPaymentUpload
    invoiceRows,        \* invoices table as payments.create sees it: id -> row
    paymentRows,        \* payments table: rows in order of their id
    pay,                \* invocations of payments.create
    otpCodes,           \* otpCodes table: the rows of the one user
    otpNow,             \* the clock, in units of OTP_EXPIRY_MINUTES
    generator,          \* the invocation of generateAndSendOtp
    ver,                \* invocations of verifyOtpCode
    otpHistory,         \* history: what was issued, compared and accepted
    edit,               \* one call of getEditDistance: arguments and result
    units,              \* units table: id -> status
    leaseRows,          \* leases table as the lease router sees it, by id
    tenancy             \* the call of leases.create or leases.terminate

\* The variables of the invoice engine, and those of the invoice number.
engineVars == <<insertResultHasId, now, leases, logs, pendingInvoices, invoices,
                gen, fin, finalizedOk>>
numberVars == <<numberArgs, invoiceNumber>>
matchVars == <<tenants, match>>
csvVars == <<csvFeed, csvText, parsed>>
uploadVars == <<importedPayments, paymentUploads, up>>
payVars == <<invoiceRows, paymentRows, pay>>
otpVars == <<otpCodes, otpNow, generator, ver, otpHistory>>
editVars == <<edit>>
tenancyVars == <<units, leaseRows, tenancy>>

\* What the invoice engine leaves alone.
notEngineVars ==
    <<numberVars, matchVars, csvVars, uploadVars, payVars, otpVars,
      editVars, tenancyVars>>
\* What the construction of an invoice number leaves alone.
notNumberVars ==
    <<engineVars, matchVars, csvVars, uploadVars, payVars, otpVars,
      editVars, tenancyVars>>
\* What payment matching leaves alone.
notMatchVars ==
    <<engineVars, numberVars, csvVars, uploadVars, payVars, otpVars,
      editVars, tenancyVars>>
\* What the parsing of a feed leaves alone.
notCsvVars ==
    <<engineVars, numberVars, matchVars, uploadVars, payVars, otpVars,
      editVars, tenancyVars>>
\* What the processing of an upload leaves alone: it reads the tenants.
notUploadVars ==
    <<engineVars, numberVars, matchVars, csvVars, payVars, otpVars,
      editVars, tenancyVars>>
\* What the one-time passwords leave alone.
notOtpVars ==
    <<engineVars, numberVars, matchVars, csvVars, uploadVars, payVars,
      editVars, tenancyVars>>
\* What the lease router leaves alone.
notTenancyVars ==
    <<engineVars, numberVars, matchVars, csvVars, uploadVars, payVars, otpVars,
      editVars>>
\* What a call of getEditDistance leaves alone.
notEditVars ==
    <<engineVars, numberVars, matchVars, csvVars, uploadVars, payVars,
      otpVars, tenancyVars>>
\* What the recording of a payment leaves alone.
notPayVars ==
    <<engineVars, numberVars, matchVars, csvVars, uploadVars, otpVars,
      editVars, tenancyVars>>

vars ==
    <<engineVars, numberVars, matchVars, csvVars, uploadVars, payVars, otpVars,
      editVars, tenancyVars>>

\* ------------------------------------------------------- results of calls
\* What a call returns: nothing yet, `undefined` (a bare return), the
\* {success: false, error} object, or {success: true, <count>: n}.
NoResult == [kind |-> "running", n |-> 0]
Undefined == [kind |-> "undefined", n |-> 0]
Failure == [kind |-> "error", n |-> 0]
Success(n) == [kind |-> "success", n |-> n]

\* ------------------------------------------------ JavaScript number model
\* A double is counted in units of 1/FloatScale cent.
FloatScale == 1000

\* parseFloat of a DECIMAL(10,2) string.
parseFloat(cents) == cents * FloatScale

\* The rounding error one floating-point addition may leave, in units.
FloatErr == {-1, 0, 1}

\* Number.prototype.toString followed by the store into a DECIMAL(10,2)
\* column, which rounds the literal half up to two fractional digits.
toDecimal(x) == (x + FloatScale \div 2) \div FloatScale

\* ------------------------------------------------------------ statements
\* db.select().from(leases).where(eq(leases.status, "active"))
SelectActiveLeasesMutant(t) ==
    { [id |-> l, monthlyRent |-> t[l].monthlyRent,
       serviceCharge |-> t[l].serviceCharge] : l \in DOMAIN t }
SelectActiveLeases(t) ==
    { [id |-> l, monthlyRent |-> t[l].monthlyRent,
       serviceCharge |-> t[l].serviceCharge] :
        l \in { k \in DOMAIN t : t[k].status = "active" } }

\* const logId = (logEntry as any).insertId || 1
LogIdOf(insertId) == IF insertResultHasId /\ insertId # 0 THEN insertId ELSE 1

\* The row generateMonthlyInvoices pushes for one lease.
PendingRow(lease, suffix, month, logId, err, run) ==
    LET rentAmount == parseFloat(lease.monthlyRent)
        serviceChargeAmount == parseFloat(lease.serviceCharge)
        utilitiesAmount == 0
        totalAmount == rentAmount + serviceChargeAmount + utilitiesAmount + err
    IN  [ leaseId |-> lease.id,
          invoiceNumber |-> <<month, suffix>>,
          periodStart |-> month,
          rentAmount |-> toDecimal(rentAmount),
          serviceChargeAmount |-> toDecimal(serviceChargeAmount),
          utilitiesAmount |-> toDecimal(utilitiesAmount),
          totalAmount |-> toDecimal(totalAmount),
          generationLogId |-> logId,
          run |-> run ]

\* A row fits its DECIMAL(10,2) columns.
FitsDecimal(row) ==
    /\ row.rentAmount <= DecimalMax
    /\ row.serviceChargeAmount <= DecimalMax
    /\ row.totalAmount <= DecimalMax

\* pending.map((p) => ({...})) of finalizePendingInvoices
ToInvoiceMutant(p, call) ==
    [ leaseId |-> p.leaseId,
      invoiceNumber |-> p.invoiceNumber,
      rentAmount |-> p.rentAmount,
      serviceChargeAmount |-> p.serviceChargeAmount,
      utilitiesAmount |-> p.utilitiesAmount,
      totalAmount |-> p.rentAmount,
      paidAmount |-> 0,
      status |-> "unpaid",
      call |-> call ]
ToInvoice(p, call) ==
    [ leaseId |-> p.leaseId,
      invoiceNumber |-> p.invoiceNumber,
      rentAmount |-> p.rentAmount,
      serviceChargeAmount |-> p.serviceChargeAmount,
      utilitiesAmount |-> p.utilitiesAmount,
      totalAmount |-> p.totalAmount,
      paidAmount |-> 0,
      status |-> "unpaid",
      call |-> call ]

\* invoices.invoiceNumber is UNIQUE: a bulk insert is accepted only if no
\* number repeats, within the batch or against the rows already stored.
\* `batch` is the set of drafts the rows are mapped from.
UniqueOkMutant(table, batch) == TRUE
UniqueOk(table, batch) ==
    /\ \A p, q \in batch : p.invoiceNumber = q.invoiceNumber => p = q
    /\ \A p \in batch : \A i \in table : i.invoiceNumber # p.invoiceNumber

\* db.delete(pendingInvoices).where(eq(pendingInvoices.generationLogId, logId))
DeletePending(table, logId) ==
    { p \in table : p.generationLogId # logId }

\* --------------------------------------------------- the invoice number
\* Strings are sequences of one-character strings.
DigitChars == <<"0", "1", "2", "3", "4", "5", "6", "7", "8", "9">>
LowerChars == <<"a", "b", "c", "d", "e", "f", "g", "h", "i", "j", "k", "l", "m",
                "n", "o", "p", "q", "r", "s", "t", "u", "v", "w", "x", "y", "z">>
UpperChars == <<"A", "B", "C", "D", "E", "F", "G", "H", "I", "J", "K", "L", "M",
                "N", "O", "P", "Q", "R", "S", "T", "U", "V", "W", "X", "Y", "Z">>

\* The set of the elements of a sequence.
Range(s) == {s[i] : i \in DOMAIN s}

\* String(n) of a non-negative integer.
RECURSIVE String(_)
String(n) ==
    IF n < 10 THEN <<DigitChars[n + 1]>>
    ELSE Append(String(n \div 10), DigitChars[(n % 10) + 1])

\* String.prototype.padStart(targetLength, padString) for a one-character pad.
padStart(s, targetLength, padString) ==
    IF Len(s) >= targetLength THEN s
    ELSE [i \in 1..(targetLength - Len(s)) |-> padString] \o s

\* String.prototype.toUpperCase: letters a-z are mapped, all else is kept.
toUpperCase(s) ==
    [i \in DOMAIN s |->
       IF \E k \in DOMAIN LowerChars : LowerChars[k] = s[i]
       THEN UpperChars[CHOOSE k \in DOMAIN LowerChars : LowerChars[k] = s[i]]
       ELSE s[i]]

\* The number a string of decimal digits denotes.
RECURSIVE NumberOf(_)
NumberOf(s) ==
    IF s = <<>> THEN 0
    ELSE 10 * NumberOf(SubSeq(s, 1, Len(s) - 1))
           + (CHOOSE k \in DOMAIN DigitChars : DigitChars[k] = s[Len(s)]) - 1

\* nanoid(size): `size` characters of the library's URL-friendly alphabet
\* A-Za-z0-9_- .  The model draws them from its first MaxAlphabet symbols.
NanoSize == 6
NanoAlphabet == <<"_", "a", "7", "Z", "-">> \o LowerChars \o UpperChars \o DigitChars
nanoid(size) == [1..size -> {NanoAlphabet[k] : k \in 1..MaxAlphabet}]

\* The clock: getFullYear() and getMonth() (0 = January).
Years == FirstYear..(FirstYear + MaxYears - 1)
Months == 0..11

\* `INV-${currentYear}${String(currentMonth + 1).padStart(2, "0")}-${nanoid(6).toUpperCase()}`
InvoiceNumberText(currentYear, currentMonth, id) ==
    <<"I", "N", "V", "-">> \o String(currentYear)
      \o padStart(String(currentMonth + 1), 2, "0")
      \o <<"-">> \o toUpperCase(id)

\* No invoice number is under construction.
NumberOff ==
    /\ numberArgs = [currentYear |-> FirstYear, currentMonth |-> 0, id |-> <<>>]
    /\ invoiceNumber = <<>>

\* ------------------------------------------------------ payment matching
\* (currency.ts; its functions are those of paymentMatching.)
WhiteSpace == {" ", "\t", "\n", "\r"}

\* String.prototype.toLowerCase: letters A-Z are mapped, all else is kept.
toLowerCase(s) ==
    [i \in DOMAIN s |->
       IF \E k \in DOMAIN UpperChars : UpperChars[k] = s[i]
       THEN LowerChars[CHOOSE k \in DOMAIN UpperChars : UpperChars[k] = s[i]]
       ELSE s[i]]

\* String.prototype.trim
RECURSIVE trimStart(_)
trimStart(s) ==
    IF s # <<>> /\ Head(s) \in WhiteSpace THEN trimStart(Tail(s)) ELSE s
RECURSIVE trimEnd(_)
trimEnd(s) ==
    IF s # <<>> /\ s[Len(s)] \in WhiteSpace
    THEN trimEnd(SubSeq(s, 1, Len(s) - 1)) ELSE s
trim(s) == trimEnd(trimStart(s))

\* phone.replace(/\D/g, "").slice(-9)
PhoneKeep == 9
IsDigit(c) == c \in Range(DigitChars)
normalizePhoneNumberMutant(phone) ==
    LET digits == SelectSeq(phone, IsDigit)
    IN  IF Len(digits) <= PhoneKeep + 1 THEN digits
        ELSE SubSeq(digits, Len(digits) - PhoneKeep, Len(digits))
normalizePhoneNumber(phone) ==
    LET digits == SelectSeq(phone, IsDigit)
    IN  IF Len(digits) <= PhoneKeep THEN digits
        ELSE SubSeq(digits, Len(digits) - PhoneKeep + 1, Len(digits))

\* Math.min of three numbers.
Min3Mutant(a, b, c) == IF a < b THEN a ELSE b
Min3(a, b, c) ==
    LET ab == IF a < b THEN a ELSE b IN IF ab < c THEN ab ELSE c

\* Now(v, e) is e with v evaluated first: a loop's state is computed
\* iteration by iteration, as the code computes it.
Now(v, e) == IF v = v THEN e ELSE e

\* One iteration of the loop over j of getEditDistance, in row i.
EditCell(s1, s2, i, j, st) ==
    IF i = 0
    THEN [costs |-> [st.costs EXCEPT ![j] = j], lastValue |-> st.lastValue]
    ELSE IF j > 0
         THEN LET newValue ==
                    IF s1[i] # s2[j]
                    THEN Min3(st.costs[j - 1], st.lastValue, st.costs[j]) + 1
                    ELSE st.costs[j - 1]
              IN  [costs |-> [st.costs EXCEPT ![j - 1] = st.lastValue],
                   lastValue |-> newValue]
    ELSE st

\* The iterations lo..hi of the loop over j, in order (the range is halved
\* to keep the evaluation shallow).
RECURSIVE EditRow(_, _, _, _, _, _)
EditRow(s1, s2, i, lo, hi, st) ==
    IF lo > hi THEN st
    ELSE IF lo = hi THEN EditCell(s1, s2, i, lo, st)
    ELSE LET mid == (lo + hi) \div 2
             first == EditRow(s1, s2, i, lo, mid, st)
         IN  Now(first, EditRow(s1, s2, i, mid + 1, hi, first))

\* One iteration of the loop over i of getEditDistance.
EditLine(s1, s2, i, costs) ==
    LET row == EditRow(s1, s2, i, 0, Len(s2), [costs |-> costs, lastValue |-> i])
    IN  IF i > 0
        THEN [row.costs EXCEPT ![Len(s2)] = row.lastValue]
        ELSE row.costs

\* The iterations lo..hi of the loop over i, in order.
RECURSIVE EditRows(_, _, _, _, _)
EditRows(s1, s2, lo, hi, costs) ==
    IF lo > hi THEN costs
    ELSE IF lo = hi THEN EditLine(s1, s2, lo, costs)
    ELSE LET mid == (lo + hi) \div 2
             first == EditRows(s1, s2, lo, mid, costs)
         IN  Now(first, EditRows(s1, s2, mid + 1, hi, first))

getEditDistance(s1, s2) ==
    EditRows(s1, s2, 0, Len(s1), [j \in 0..Len(s2) |-> 0])[Len(s2)]

\* A similarity is the fraction num / den (a percentage); the doubles of the
\* code are these fractions for the lengths the model reaches.
Percent(num, den) == [num |-> num, den |-> den]
\* a > b, a >= b and Math.round(a), for a similarity a and a number or
\* similarity b.
Exceeds(a, b) == a.num * b.den > b.num * a.den
Number(n) == Percent(n, 1)
round(a) == (2 * a.num + a.den) \div (2 * a.den)

calculateSimilarity(str1, str2) ==
    LET s1 == trim(toLowerCase(str1))
        s2 == trim(toLowerCase(str2))
        longer == IF Len(s1) > Len(s2) THEN s1 ELSE s2
        shorter == IF Len(s1) > Len(s2) THEN s2 ELSE s1
    IN  IF s1 = s2 THEN Number(100)
        ELSE IF Len(longer) = 0 THEN Number(100)
        ELSE Percent((Len(longer) - getEditDistance(longer, shorter)) * 100,
                     Len(longer))

\* MatchResult; tenantId NoTenant stands for an absent tenantId.
NoTenant == 0
MatchResult(tenantId, matchStatus, matchConfidence) ==
    [ tenantId |-> tenantId, matchStatus |-> matchStatus,
      matchConfidence |-> matchConfidence ]

\* The loop over the tenants' phones: the index of the first tenant from i
\* on whose normalized phone is normalizedPhone, 0 if there is none.
RECURSIVE PhoneMatch(_, _, _)
PhoneMatch(allTenants, normalizedPhone, i) ==
    IF i > Len(allTenants) THEN 0
    ELSE IF /\ allTenants[i].phone # <<>>
            /\ normalizePhoneNumber(allTenants[i].phone) = normalizedPhone
         THEN i
    ELSE PhoneMatch(allTenants, normalizedPhone, i + 1)

\* `${tenant.firstName} ${tenant.lastName}`.toLowerCase()
FullName(tenant) == toLowerCase(tenant.firstName \o <<" ">> \o tenant.lastName)

\* The candidate floor and the confirmation threshold.
CandidateFloor == 60
ConfirmedMutant(confidence) == confidence >= 70
Confirmed(confidence) == confidence > 70

\* The loop over the tenants' names, from tenant i on.
RECURSIVE BestMatch(_, _, _, _)
BestMatch(payment, allTenants, i, bestMatch) ==
    IF i > Len(allTenants) THEN bestMatch
    ELSE LET similarity ==
               calculateSimilarity(payment.payerName, FullName(allTenants[i]))
             next ==
               IF /\ Exceeds(similarity, Number(CandidateFloor))
                  /\ Exceeds(similarity, bestMatch.similarity)
               THEN [ tenant |-> i, similarity |-> similarity,
                      confidence |-> round(similarity) ]
               ELSE bestMatch
         IN  Now(next, BestMatch(payment, allTenants, i + 1, next))

\* The try block of autoMatchPaymentToTenant once the tenants are fetched.
\* An absent phoneNumber and an empty one are both <<>>.
MatchTenants(payment, allTenants) ==
    LET byPhone == IF payment.phoneNumber # <<>>
                   THEN PhoneMatch(allTenants,
                                   normalizePhoneNumber(payment.phoneNumber), 1)
                   ELSE 0
        bestMatch == BestMatch(payment, allTenants, 1,
                               [ tenant |-> 0, similarity |-> Number(0),
                                 confidence |-> 0 ])
    IN  IF byPhone # 0
        THEN MatchResult(allTenants[byPhone].id, "matched", 100)
        ELSE IF bestMatch.tenant # 0 /\ Confirmed(bestMatch.confidence)
        THEN MatchResult(allTenants[bestMatch.tenant].id, "matched",
                         bestMatch.confidence)
        ELSE MatchResult(NoTenant, "unmatched", bestMatch.confidence)

\* autoMatchPaymentToTenant: without a database handle, and when the fetch
\* of the tenants throws, the payment is unmatched with confidence 0.
autoMatchPaymentToTenant(payment, allTenants, db, threw) ==
    IF ~db \/ threw THEN MatchResult(NoTenant, "unmatched", 0)
    ELSE MatchTenants(payment, allTenants)

\* The rows the tenants table may hold, and the payments that come in.
TenantRows ==
    <<
      [ id |-> 1,
        firstName |-> <<"J", "o", "h", "n">>,
        lastName |-> <<"D", "o", "e">>,
        phone |-> <<"0", "7", "1", "2", "-", "3", "4", "5", "-", "6", "7",
                  "8">> ],
      [ id |-> 2,
        firstName |-> <<"J", "a", "n", "e">>,
        lastName |-> <<"S", "m", "i", "t", "h">>,
        phone |-> <<"+", "2", "5", "4", " ", "7", "1", "2", " ", "3", "4", "5",
                  " ", "6", "7", "8">> ],
      [ id |-> 3,
        firstName |-> <<"J", "o", "n">>,
        lastName |-> <<"D", "o", "e">>,
        phone |-> <<"0", "7", "9", "8", "7", "6", "5", "4", "3", "2">> ],
      [ id |-> 4,
        firstName |-> <<"C", "h", "r", "i", "s", "t", "o", "p", "h", "e",
                      "r">>,
        lastName |-> <<"M", "o", "n", "t", "g", "o", "m", "e", "r", "y", "-",
                     "H", "a", "l", "l">>,
        phone |-> <<>> ],
      [ id |-> 5,
        firstName |-> <<"j", "o", "h", "n">>,
        lastName |-> <<"d", "o", "e">>,
        phone |-> <<"n", "/", "a">> ]
    >>

\* The tenants in the order a fetch returns them: no ORDER BY is given.
TenantTables ==
    { t \in UNION { [1..n -> Range(TenantRows)] : n \in 0..MaxTenants } :
        \A i, j \in DOMAIN t : t[i] = t[j] => i = j }

PayerNames ==
    { <<" ", "J", "O", "H", "N", " ", "D", "O", "E", " ">>,
      <<"J", "o", "n", " ", "D", "o", "e">>,
      <<"J", "x", "n", "e", " ", "X", "m", "x", "t", "h">>,
      <<"J", "x", "h", "x", " ", "D", "x", "e">>,
      <<"C", "h", "r", "x", "s", "t", "x", "p", "h", "x", "r", " ", "M",
         "x", "n", "t", "g", "x", "m", "x", "r", "y", " ", "H", "x", "l",
         "l">>,
      <<"B", "o", "b", " ", "J", "o", "h", "n", "s", "o", "n">>,
      <<"J", "a", "n", "e", " ", "S", "m", "y", "t", "h">> }
PayerPhones ==
    { <<>>,
      <<"0", "7", "1", "2", "3", "4", "5", "6", "7", "8">>,
      <<"+", "2", "5", "4", " ", "7", "9", "8", " ", "7", "6", "5", " ",
         "4", "3", "2">>,
      <<"-", "-", "-">>,
      <<"0", "7", "0", "0", "0", "0", "0", "0", "0", "0">> }
Payments ==
    { [payerName |-> n, phoneNumber |-> p] : n \in PayerNames, p \in PayerPhones }

\* No match is in progress and there is no tenant.
MatchIdle ==
    [ pc |-> "idle", payment |-> [payerName |-> <<>>, phoneNumber |-> <<>>],
      fetched |-> FALSE, result |-> MatchResult(NoTenant, "unmatched", 0) ]
MatchOff ==
    /\ tenants = <<>>
    /\ match = MatchIdle

\* ------------------------------------------------------ the payment feed
\* String.prototype.split(separator) for a one-character separator: the
\* pieces between the separators, in order.
Split(s, separator) ==
    LET cuts == {0} \cup {i \in DOMAIN s : s[i] = separator} \cup {Len(s) + 1}
        cut(k) == CHOOSE c \in cuts : Cardinality({d \in cuts : d < c}) = k
    IN  [k \in 1..(Cardinality(cuts) - 1) |->
           SubSeq(s, cut(k - 1) + 1, cut(k) - 1)]

\* String.prototype.includes
includes(s, searchString) ==
    \E i \in 1..(Len(s) - Len(searchString) + 1) :
      SubSeq(s, i, i + Len(searchString) - 1) = searchString

\* header.findIndex((h) => tokens.some((t) => h.includes(t))): the index,
\* from 0, of the first column whose title holds one of the tokens, -1 if
\* there is none.
findIndex(header, tokens) ==
    LET found == {i \in DOMAIN header : \E t \in tokens : includes(header[i], t)}
    IN  IF found = {} THEN -1
        ELSE (CHOOSE i \in found : \A k \in found : i <= k) - 1

\* parts[index]: undefined, here <<>>, outside the array.
Part(parts, index) ==
    IF index + 1 \in DOMAIN parts THEN parts[index + 1] ELSE <<>>

\* The longest run of decimal digits at the start of s.
RECURSIVE DigitRun(_)
DigitRun(s) ==
    IF s # <<>> /\ IsDigit(Head(s)) THEN <<Head(s)>> \o DigitRun(Tail(s))
    ELSE <<>>

\* 10 to the power n.
RECURSIVE Pow10(_)
Pow10(n) == IF n = 0 THEN 1 ELSE 10 * Pow10(n - 1)

\* parseFloat(string) of a cell: leading white space, a sign, digits, a
\* point and digits; what follows is ignored; NaN without any digit.  The
\* number is the fraction num / den.  (Exponents and Infinity are not in
\* the cells of the model.)
parseFloatCell(string) ==
    LET s == trimStart(string)
        signed == s # <<>> /\ Head(s) \in {"+", "-"}
        sign == IF s # <<>> /\ Head(s) = "-" THEN -1 ELSE 1
        body == IF signed THEN Tail(s) ELSE s
        whole == DigitRun(body)
        rest == SubSeq(body, Len(whole) + 1, Len(body))
        fraction == IF rest # <<>> /\ Head(rest) = "." THEN DigitRun(Tail(rest))
                    ELSE <<>>
    IN  IF whole = <<>> /\ fraction = <<>>
        THEN [nan |-> TRUE, num |-> 0, den |-> 1]
        ELSE [nan |-> FALSE,
              num |-> sign * (NumberOf(whole) * Pow10(Len(fraction))
                                + NumberOf(fraction)),
              den |-> Pow10(Len(fraction))]

\* "Unknown", and the Date the clock gives.
Unknown == <<"U", "n", "k", "n", "o", "w", "n">>
NewDate == <<"n", "o", "w">>

\* `amount > 0 && payerName`
KeepMutant(amount, payerName) == ~amount.nan /\ amount.num >= 0 /\ payerName # <<>>
Keep(amount, payerName) == ~amount.nan /\ amount.num > 0 /\ payerName # <<>>

\* The loop over the data lines of parseCSVPayments, from line i on.  A Date
\* is the text it is made from.
RECURSIVE ParseLines(_, _, _, _)
ParseLines(lines, idx, i, payments) ==
    IF i > Len(lines) THEN payments
    ELSE LET parts == [k \in DOMAIN Split(lines[i], ",") |->
                         trim(Split(lines[i], ",")[k])]
             paymentDate == IF idx.date >= 0 THEN Part(parts, idx.date)
                            ELSE NewDate
             amount == IF idx.amount >= 0
                       THEN parseFloatCell(Part(parts, idx.amount))
                       ELSE [nan |-> FALSE, num |-> 0, den |-> 1]
             payerName == IF idx.name >= 0 THEN Part(parts, idx.name)
                          ELSE Unknown
             payment == [ paymentDate |-> paymentDate,
                          amount |-> amount,
                          payerName |-> payerName,
                          phoneNumber |-> IF idx.phone >= 0
                                          THEN Part(parts, idx.phone) ELSE <<>>,
                          referenceCode |-> IF idx.ref >= 0
                                            THEN Part(parts, idx.ref) ELSE <<>>,
                          description |-> IF idx.desc >= 0
                                          THEN Part(parts, idx.desc) ELSE <<>> ]
         IN  ParseLines(lines, idx, i + 1,
                        IF Len(parts) < 2 THEN payments
                        ELSE IF Keep(amount, payerName)
                        THEN Append(payments, payment)
                        ELSE payments)

parseCSVPayments(csvContent) ==
    LET lines == Split(trim(csvContent), "\n")
        titles == Split(lines[1], ",")
        header == [k \in DOMAIN titles |-> trim(toLowerCase(titles[k]))]
        idx == [ date |-> findIndex(header, {<<"d", "a", "t", "e">>}),
                 amount |-> findIndex(header, {<<"a", "m", "o", "u", "n", "t">>}),
                 name |-> findIndex(header, {<<"n", "a", "m", "e">>,
                                             <<"p", "a", "y", "e", "r">>}),
                 phone |-> findIndex(header, {<<"p", "h", "o", "n", "e">>}),
                 ref |-> findIndex(header,
                           {<<"r", "e", "f", "e", "r", "e", "n", "c", "e">>,
                            <<"r", "e", "f">>}),
                 desc |-> findIndex(header,
                            {<<"d", "e", "s", "c", "r", "i", "p", "t", "i", "o", "n">>,
                             <<"n", "o", "t", "e">>}) ]
    IN  IF Len(lines) < 2 THEN <<>>
        ELSE ParseLines(lines, idx, 2, <<>>)

\* ---- the feeds of the model: a header and data rows, written out as text
\* The cells an amount column and a name column may hold, each with the
\* number or the name it stands for.
AmountCells ==
    { [ text |-> <<"1", "5", "0", "0">>,
        nan |-> FALSE, num |-> 1500, den |-> 1 ],
      [ text |-> <<"5", "0", ".", "5">>,
        nan |-> FALSE, num |-> 505, den |-> 10 ],
      [ text |-> <<"-", "1", "0", "0", "0">>,
        nan |-> FALSE, num |-> -1000, den |-> 1 ],
      [ text |-> <<"0">>,
        nan |-> FALSE, num |-> 0, den |-> 1 ],
      [ text |-> <<"i", "n", "v", "a", "l", "i", "d">>,
        nan |-> TRUE, num |-> 0, den |-> 1 ],
      [ text |-> <<"1", "2", "a", "b", "c">>,
        nan |-> FALSE, num |-> 12, den |-> 1 ] }
NameCells ==
    { [ text |-> <<" ", "J", "a", "n", "e", " ", "S", "m", "i", "t", "h",
                  " ">>,
        name |-> <<"J", "a", "n", "e", " ", "S", "m", "i", "t", "h">> ],
      [ text |-> <<>>,
        name |-> <<>> ],
      [ text |-> <<" ", " ">>,
        name |-> <<>> ] }

\* The columns a feed may have: what each holds, and its title.
Layouts ==
    { << [ col |-> "date", title |-> <<"D", "a", "t", "e">> ],
         [ col |-> "amount", title |-> <<"A", "m", "o", "u", "n", "t">> ],
         [ col |-> "name", title |-> <<"P", "a", "y", "e", "r", " ", "N", "a", "m",
                                 "e">> ] >>,
      << [ col |-> "name", title |-> <<" ", "n", "a", "m", "e", " ">> ],
         [ col |-> "amount", title |-> <<" ", "A", "M", "O", "U", "N", "T", " ">> ],
         [ col |-> "phone", title |-> <<"P", "h", "o", "n", "e">> ] >>,
      << [ col |-> "date", title |-> <<"D", "a", "t", "e">> ],
         [ col |-> "amount", title |-> <<"A", "m", "o", "u", "n", "t">> ] >>,
      << [ col |-> "date", title |-> <<"P", "a", "y", "m", "e", "n", "t", " ", "D",
                                 "a", "t", "e">> ],
         [ col |-> "name", title |-> <<"P", "a", "y", "e", "r">> ] >>,
      << [ col |-> "amount", title |-> <<"A", "m", "o", "u", "n", "t">> ] >> }

\* A data row: a full row, a row cut after its second cell, a row of one
\* cell that is no payment, or a blank line.
FeedRows ==
    { [kind |-> k, amount |-> a, name |-> n] :
        k \in {"full"}, a \in AmountCells, n \in NameCells }
      \cup { [kind |-> k, amount |-> a, name |-> n] :
               k \in {"cut", "junk", "blank"},
               a \in {c \in AmountCells : c.num = 1500},
               n \in {c \in NameCells : c.name # <<>>} }

\* The cells of a row under a layout, and the text of a line.
Cell(row, col) ==
    CASE col = "date" -> <<"2", "0", "2", "5", "-", "0", "1", "-", "1", "5">>
      [] col = "amount" -> row.amount.text
      [] col = "name" -> row.name.text
      [] col = "phone" -> <<"0", "7", "1", "2", "3", "4", "5", "6", "7", "8">>
Cells(row, layout) ==
    CASE row.kind = "full" -> [k \in DOMAIN layout |-> Cell(row, layout[k].col)]
      [] row.kind = "cut" ->
           [k \in 1..(IF Len(layout) < 2 THEN Len(layout) ELSE 2) |->
              Cell(row, layout[k].col)]
      [] row.kind = "junk" -> << <<"T", "O", "T", "A", "L">> >>
      [] row.kind = "blank" -> << <<>> >>

\* array.join(separator)
RECURSIVE Join(_, _)
Join(pieces, separator) ==
    IF pieces = <<>> THEN <<>>
    ELSE IF Len(pieces) = 1 THEN pieces[1]
    ELSE pieces[1] \o separator \o Join(Tail(pieces), separator)

\* The text of a feed: the header line and the data lines, each line ended
\* or separated by the line break.
FeedText(feed) ==
    LET head == Join([k \in DOMAIN feed.layout |-> feed.layout[k].title], <<",">>)
        body == [k \in DOMAIN feed.rows |->
                   Join(Cells(feed.rows[k], feed.layout), <<",">>)]
    IN  Join(<<head>> \o body, feed.lineBreak)
          \o (IF feed.lastLineEnded THEN feed.lineBreak ELSE <<>>)

Feeds ==
    { [layout |-> l, rows |-> r, lineBreak |-> b, lastLineEnded |-> e] :
        l \in Layouts,
        r \in UNION { [1..n -> FeedRows] : n \in 0..MaxRows },
        b \in { <<"\n">>, <<"\r", "\n">> },
        e \in BOOLEAN }

\* Nothing is being parsed.
NoFeed ==
    [layout |-> <<>>, rows |-> <<>>, lineBreak |-> <<>>, lastLineEnded |-> FALSE]
CsvOff ==
    /\ csvFeed = NoFeed
    /\ csvText = <<>>
    /\ parsed = [done |-> FALSE, payments |-> <<>>]

\* ------------------------------------------------------ the payment upload
UploadIds == 1..MaxUploads
UploadCalls == 1..MaxUploadCalls

\* The values of one insert into importedPayments.  The payment's date,
\* amount, reference code and description are stored beside them and take
\* no part in what follows.
ImportedPayment(uploadId, payment, matchResult) ==
    [ uploadId |-> uploadId,
      payerName |-> payment.payerName,
      phoneNumber |-> payment.phoneNumber,
      tenantId |-> matchResult.tenantId,
      matchStatus |-> matchResult.matchStatus,
      matchConfidence |-> matchResult.matchConfidence ]

\* What processPaymentUpload returns.
UploadResult(success, matchedCount, unmatchedCount, error) ==
    [ success |-> success, matchedCount |-> matchedCount,
      unmatchedCount |-> unmatchedCount, error |-> error ]
NoUploadResult == UploadResult(FALSE, 0, 0, "")
DatabaseNotAvailable == "Database not available"
InsertError == "insert failed"
UpdateError == "update failed"

\* matchedCount++ or unmatchedCount++
CountMutant(call, matchResult) ==
    [call EXCEPT !.matchedCount = @ + 1]
Count(call, matchResult) ==
    IF matchResult.matchStatus = "matched"
    THEN [call EXCEPT !.matchedCount = @ + 1]
    ELSE [call EXCEPT !.unmatchedCount = @ + 1]

\* The catch block: the call ends with {success: false, 0, 0, error}.
CaughtMutant(call, error) ==
    [call EXCEPT !.i = @ + 1,
                 !.pc = IF call.i < Len(call.payments) THEN "match"
                        ELSE "update"]
Caught(call, error) ==
    [call EXCEPT !.pc = "done", !.result = UploadResult(FALSE, 0, 0, error)]

\* The tenants on file while uploads are processed, and the payments of an
\* upload: one whose payer is found by the phone, one whose payer is not found.
UploadTenants == <<TenantRows[1], TenantRows[3]>>
UploadPayments ==
    { [ payerName |-> <<"B", "o", "b", " ", "J", "o", "h", "n", "s", "o",
                        "n">>,
        phoneNumber |-> <<"+", "2", "5", "4", " ", "7", "9", "8", " ", "7",
                          "6", "5", " ", "4", "3", "2">> ],
      [ payerName |-> <<"B", "o", "b", " ", "J", "o", "h", "n", "s", "o",
                        "n">>,
        phoneNumber |-> <<>> ] }
PaymentLists == UNION { [1..n -> UploadPayments] : n \in 0..MaxPayments }

\* A call of processPaymentUpload(uploadId, payments) before its first
\* statement.  `inserted` is history: the id and the match outcome of each
\* row the call has inserted; so is `fetched`: the last lookup of the
\* tenants came back.
UploadCall(uploadId, payments) ==
    [ pc |-> "start", uploadId |-> uploadId, payments |-> payments,
      i |-> 1, matchResult |-> MatchResult(NoTenant, "unmatched", 0),
      fetched |-> TRUE, matchedCount |-> 0, unmatchedCount |-> 0,
      inserted |-> <<>>, result |-> NoUploadResult ]

\* A new paymentUploads row: both counters default to 0.
NewUpload == [matchedCount |-> 0, unmatchedCount |-> 0]

\* No upload is being processed.
UploadOff ==
    /\ importedPayments = <<>>
    /\ paymentUploads = [u \in UploadIds |-> NewUpload]
    /\ up = [c \in UploadCalls |-> [UploadCall(1, <<>>) EXCEPT !.pc = "off"]]

\* ------------------------------------------------- the payments of invoices
InvoiceIds == 1..MaxInvoices
PayCalls == 1..MaxPayCalls

\* input.invoiceId: an invoice on file, or one that is not.
NoSuchInvoice == MaxInvoices + 1
\* input.amount, in cents: a refund, a part and the whole of InvoiceTotal.
InvoiceTotal == 1000
PayAmounts == {-500, 500, InvoiceTotal}

\* An invoice before any payment: paidAmount "0.00"; the status is "unpaid",
\* or "overdue" once the due date has passed.
NewInvoice(status) ==
    [ leaseId |-> 1, totalAmount |-> InvoiceTotal, paidAmount |-> 0,
      status |-> status ]

\* payments.reduce((sum, p) => sum + parseFloat(p.amount), 0) over the rows
\* of one invoice.  The amounts of the model are whole shillings, which
\* doubles add exactly.
RECURSIVE SumAmounts(_, _)
SumAmounts(rows, invoiceId) ==
    IF rows = <<>> THEN 0
    ELSE SumAmounts(SubSeq(rows, 1, Len(rows) - 1), invoiceId)
           + (IF rows[Len(rows)].invoiceId = invoiceId
              THEN parseFloat(rows[Len(rows)].amount) ELSE 0)

\* The status payments.create derives from the two numbers.
PaidStatus(totalPaid, totalAmount) ==
    IF totalPaid >= totalAmount THEN "fully_paid"
    ELSE IF totalPaid > 0 THEN "partially_paid"
    ELSE "unpaid"

\* A call of payments.create before its first statement.
PayIdle ==
    [ pc |-> "idle", invoiceId |-> 0, amount |-> 0, totalAmount |-> 0,
      totalPaid |-> 0 ]

\* No payment is being recorded.
PayOff ==
    /\ invoiceRows = [i \in InvoiceIds |-> NewInvoice("unpaid")]
    /\ paymentRows = <<>>
    /\ pay = [c \in PayCalls |-> [PayIdle EXCEPT !.pc = "off"]]

\* ------------------------------------------------- one-time passwords
OtpIds == 1..MaxOtps
Verifiers == 1..MaxVerifiers

\* const OTP_EXPIRY_MINUTES = 5, one unit of the clock, and
\* const MAX_OTP_ATTEMPTS = 5.
OTP_EXPIRY == 1
MAX_OTP_ATTEMPTS == 5

\* generateOtpCode(): six decimal digits, 100000 to 999999; two of them.
PlainOtps == {<<"1", "0", "0", "0", "0", "0">>, <<"9", "9", "9", "9", "9", "9">>}

\* SHA-256 is taken to be free of collisions on the codes.
hashOtp(otp) == <<"sha256", otp>>
verifyOtp(plainOtp, hashedOtp) == hashOtp(plainOtp) = hashedOtp

\* The row generateAndSendOtp inserts.
OtpRecord(id, plainOtp, clock) ==
    [ id |-> id, code |-> hashOtp(plainOtp), attempts |-> 0,
      expiresAt |-> clock + OTP_EXPIRY, usedAt |-> FALSE ]
NoOtp == [OtpRecord(0, <<>>, 0) EXCEPT !.code = <<>>]

\* What verifyOtpCode does with the row it has read, decided between the
\* select and the next await: the expiry, the attempt limit, the code.
VerifyBranch(otp, plainOtp, clock) ==
    IF clock > otp.expiresAt THEN "expired"
    ELSE IF otp.attempts >= MAX_OTP_ATTEMPTS THEN "exceeded"
    ELSE IF ~verifyOtp(plainOtp, otp.code) THEN "invalid"
    ELSE "success"

\* A verifier at rest; `result` is what its last call returned, `late` is
\* history: MAX_OTP_ATTEMPTS calls with a wrong code had completed for the
\* row when the call read it.
VerIdle ==
    [ pc |-> "idle", plainOtp |-> <<>>, otp |-> NoOtp, branch |-> "none",
      result |-> "none", late |-> FALSE ]
GeneratorIdle == [pc |-> "idle", plainOtp |-> <<>>]

\* History of one row id: wrong codes compared with the row, calls with a
\* wrong code completed, calls that returned success.
NoHistory == [compared |-> 0, wrongCalls |-> 0, accepted |-> 0]
Up(n, cap) == IF n < cap THEN n + 1 ELSE n

\* No one-time password is in use.
OtpOff ==
    /\ otpCodes = {}
    /\ otpNow = 0
    /\ generator = [GeneratorIdle EXCEPT !.pc = "off"]
    /\ ver = [v \in Verifiers |-> [VerIdle EXCEPT !.pc = "off"]]
    /\ otpHistory = [issued |-> 0, calls |-> 0, rows |-> [i \in OtpIds |-> NoHistory]]

\* ------------------------------------------- the edit distance, on its own
\* The strings getEditDistance is called on: up to MaxEditLen characters of
\* the first MaxEditAlphabet letters.
EditStrings ==
    UNION { [1..n -> {LowerChars[k] : k \in 1..MaxEditAlphabet}] : n \in 0..MaxEditLen }
EditIdle == [pc |-> "idle", s1 |-> <<>>, s2 |-> <<>>, distance |-> 0]
EditOff == edit = [EditIdle EXCEPT !.pc = "off"]

\* ------------------------------------------------- units and their leases
UnitIds == 1..MaxUnits

\* The lease router at rest.
TenancyIdle == [pc |-> "idle", unitId |-> 0, leaseId |-> 0]

\* No lease is being created or terminated.
TenancyOff ==
    /\ units = [u \in UnitIds |-> "vacant"]
    /\ leaseRows = <<>>
    /\ tenancy = [TenancyIdle EXCEPT !.pc = "off"]

\* ------------------------------------------------------------------ Init
GenIdle ==
    [ pc |-> "idle", month |-> 0, activeLeases |-> {}, active |-> {},
      logId |-> 0, generatedInvoices |-> {}, result |-> NoResult ]
GenDone(result) == [GenIdle EXCEPT !.pc = "done", !.result = result]
FinIdle ==
    [ pc |-> "idle", logId |-> 0, pending |-> {}, result |-> NoResult ]
FinDone(result) == [FinIdle EXCEPT !.pc = "done", !.result = result]

Init ==
    /\ insertResultHasId \in BOOLEAN
    /\ now = 1
    /\ \E terms \in Portfolios, status \in [LeaseIds -> LeaseStatus \ {"terminated"}] :
         leases = [l \in LeaseIds |->
                     [status |-> status[l],
                      monthlyRent |-> terms[l].monthlyRent,
                      serviceCharge |-> terms[l].serviceCharge]]
    /\ logs = <<>>
    /\ pendingInvoices = {}
    /\ invoices = {}
    /\ gen = [r \in Runs |-> GenIdle]
    /\ fin = [c \in Calls |-> FinIdle]
    /\ finalizedOk = {}
    /\ NumberOff
    /\ MatchOff
    /\ CsvOff
    /\ UploadOff
    /\ PayOff
    /\ OtpOff
    /\ EditOff
    /\ TenancyOff

\* ------------------------------------------- generateMonthlyInvoices (run r)
\* getDb(), `new Date()` and the fetch of the active leases.  A missing
\* handle, or no active lease, returns without a result.  The clock is read
\* only here, so the months that pass between two reads pass in this step.
GenSelect(r) ==
    /\ gen[r].pc = "idle"
    /\ (IF r = 1 THEN TRUE ELSE gen[r - 1].pc # "idle")
    /\ \E db \in BOOLEAN, month \in now..MaxMonth :
         LET activeLeases == SelectActiveLeases(leases) IN
         /\ now' = (IF db THEN month ELSE now)
         /\ gen' = [gen EXCEPT ![r] =
                      IF ~db \/ activeLeases = {}
                      THEN GenDone(Undefined)
                      ELSE [@ EXCEPT !.pc = "insertLog", !.month = month,
                                     !.activeLeases = activeLeases,
                                     !.active = {l \in LeaseIds :
                                                   leases[l].status = "active"}]]
    /\ UNCHANGED notEngineVars
    /\ UNCHANGED <<insertResultHasId, leases, logs, pendingInvoices, invoices,
                   fin, finalizedOk>>

\* The insert of the generation log, and the id the run takes from it.
GenInsertLog(r) ==
    /\ gen[r].pc = "insertLog"
    /\ logs' = Append(logs, [status |-> "pending_review", invoicesGenerated |-> 0,
                             propertiesAffected |-> 0, run |-> r])
    /\ gen' = [gen EXCEPT ![r].pc = "insertPending",
                          ![r].logId = LogIdOf(Len(logs) + 1)]
    /\ UNCHANGED notEngineVars
    /\ UNCHANGED <<insertResultHasId, now, leases, pendingInvoices, invoices,
                   fin, finalizedOk>>

\* The loop over the leases and the bulk insert of the drafts.  A value out
\* of the column's range is not stored: the statement throws (GenCatch).
\* The locals the run does not read again are dropped.
GenInsertPending(r) ==
    /\ gen[r].pc = "insertPending"
    /\ LET ids == {l.id : l \in gen[r].activeLeases} IN
       \E suffix \in [ids -> Suffixes], err \in [ids -> FloatErr] :
         LET generatedInvoices ==
               { PendingRow(l, suffix[l.id], gen[r].month, gen[r].logId,
                            err[l.id], r) : l \in gen[r].activeLeases }
         IN  /\ \A row \in generatedInvoices : FitsDecimal(row)
             /\ pendingInvoices' = pendingInvoices \cup generatedInvoices
             /\ gen' = [gen EXCEPT ![r].pc = "updateLog",
                                   ![r].month = 0,
                                   ![r].activeLeases = {},
                                   ![r].generatedInvoices = generatedInvoices]
    /\ UNCHANGED notEngineVars
    /\ UNCHANGED <<insertResultHasId, now, leases, logs, invoices, fin,
                   finalizedOk>>

\* The update of the log's counters (the status is not in the SET list).
GenUpdateLog(r) ==
    /\ gen[r].pc = "updateLog"
    /\ LET n == Cardinality(gen[r].generatedInvoices)
           affected == Cardinality({p.leaseId : p \in gen[r].generatedInvoices})
       IN  /\ logs' = [id \in DOMAIN logs |->
                         IF id = gen[r].logId
                         THEN [logs[id] EXCEPT !.invoicesGenerated = n,
                                               !.propertiesAffected = affected]
                         ELSE logs[id]]
           /\ gen' = [gen EXCEPT ![r] = GenDone(Success(n))]
    /\ UNCHANGED notEngineVars
    /\ UNCHANGED <<insertResultHasId, now, leases, pendingInvoices, invoices,
                   fin, finalizedOk>>

\* A storage statement of the try block throws and changes nothing (from
\* "idle": the fetch of the leases); the catch block inserts a new log row
\* with status failed, if storage takes it, and returns the error.
GenCatch(r) ==
    /\ gen[r].pc \in {"idle", "insertLog", "insertPending", "updateLog"}
    /\ (IF r = 1 THEN TRUE ELSE gen[r - 1].pc # "idle")
    /\ \E stored \in BOOLEAN :
         logs' = IF stored
                 THEN Append(logs, [status |-> "failed", invoicesGenerated |-> 0,
                                    propertiesAffected |-> 0, run |-> r])
                 ELSE logs
    /\ gen' = [gen EXCEPT ![r] = GenDone(Failure)]
    /\ UNCHANGED notEngineVars
    /\ UNCHANGED <<insertResultHasId, now, leases, pendingInvoices, invoices,
                   fin, finalizedOk>>

\* --------------------------------------- finalizePendingInvoices (call c)
\* getDb() and the fetch of the log's drafts.  A missing handle, or no
\* draft, returns without a result.
FinSelect(c, logId) ==
    /\ fin[c].pc = "idle"
    /\ (IF c = 1 THEN TRUE ELSE fin[c - 1].pc # "idle")
    /\ \E db \in BOOLEAN :
         LET pending == {p \in pendingInvoices : p.generationLogId = logId}
         IN  fin' = [fin EXCEPT ![c] =
                       IF ~db \/ pending = {}
                       THEN FinDone(Undefined)
                       ELSE [@ EXCEPT !.pc = "insert", !.logId = logId,
                                      !.pending = pending]]
    /\ UNCHANGED notEngineVars
    /\ UNCHANGED <<insertResultHasId, now, leases, logs, pendingInvoices,
                   invoices, gen, finalizedOk>>

\* An administrator finalizes one of the logs.
FinStart(c) == \E logId \in DOMAIN logs : FinSelect(c, logId)

\* The bulk insert of the invoices; a duplicate invoice number throws.
FinInsert(c) ==
    /\ fin[c].pc = "insert"
    /\ IF UniqueOk(invoices, fin[c].pending)
       THEN /\ invoices' = invoices \cup {ToInvoice(p, c) : p \in fin[c].pending}
            /\ fin' = [fin EXCEPT ![c].pc = "delete"]
       ELSE /\ fin' = [fin EXCEPT ![c] = FinDone(Failure)]
            /\ UNCHANGED invoices
    /\ UNCHANGED notEngineVars
    /\ UNCHANGED <<insertResultHasId, now, leases, logs, pendingInvoices, gen,
                   finalizedOk>>

\* The delete of the log's drafts.
FinDelete(c) ==
    /\ fin[c].pc = "delete"
    /\ pendingInvoices' = DeletePending(pendingInvoices, fin[c].logId)
    /\ fin' = [fin EXCEPT ![c].pc = "update"]
    /\ UNCHANGED notEngineVars
    /\ UNCHANGED <<insertResultHasId, now, leases, logs, invoices, gen,
                   finalizedOk>>

\* The update of the log's status.
FinUpdateLog(c) ==
    /\ fin[c].pc = "update"
    /\ logs' = [id \in DOMAIN logs |->
                  IF id = fin[c].logId
                  THEN [logs[id] EXCEPT !.status = "finalized"]
                  ELSE logs[id]]
    /\ fin' = [fin EXCEPT ![c] = FinDone(Success(Cardinality(fin[c].pending)))]
    /\ finalizedOk' = finalizedOk \cup {fin[c].logId}
    /\ UNCHANGED notEngineVars
    /\ UNCHANGED <<insertResultHasId, now, leases, pendingInvoices, invoices, gen>>

\* A storage statement of the try block throws and changes nothing (from
\* "idle": the fetch of the drafts); the catch block returns the error.
FinCatch(c) ==
    /\ fin[c].pc \in {"idle", "insert", "delete", "update"}
    /\ (IF c = 1 THEN TRUE ELSE fin[c - 1].pc # "idle")
    /\ fin' = [fin EXCEPT ![c] = FinDone(Failure)]
    /\ UNCHANGED notEngineVars
    /\ UNCHANGED <<insertResultHasId, now, leases, logs, pendingInvoices,
                   invoices, gen, finalizedOk>>

\* ------------------------------------------------------------ environment
\* db.terminateLease: the lease-management collaborator ends a lease.  Only
\* the fetch of a run reads the status, so a lease ended after the last
\* fetch is left out.
terminateLease(id) ==
    /\ \E r \in Runs : gen[r].pc = "idle"
    /\ leases' = [leases EXCEPT ![id].status = "terminated"]
    /\ UNCHANGED notEngineVars
    /\ UNCHANGED <<insertResultHasId, now, logs, pendingInvoices, invoices,
                   gen, fin, finalizedOk>>

Next ==
    \/ \E r \in Runs :
         \/ GenSelect(r) \/ GenInsertLog(r) \/ GenInsertPending(r)
         \/ GenUpdateLog(r) \/ GenCatch(r)
    \/ \E c \in Calls :
         \/ FinStart(c) \/ FinInsert(c) \/ FinDelete(c) \/ FinUpdateLog(c) \/ FinCatch(c)
    \/ \E id \in LeaseIds : terminateLease(id)

Spec == Init /\ [][Next]_vars

\* The engine at rest: no lease, no run, no call.
EngineOff ==
    /\ insertResultHasId = FALSE
    /\ now = 1
    /\ leases = [l \in LeaseIds |->
                   [status |-> "expired", monthlyRent |-> 0, serviceCharge |-> 0]]
    /\ logs = <<>>
    /\ pendingInvoices = {}
    /\ invoices = {}
    /\ gen = [r \in Runs |-> GenIdle]
    /\ fin = [c \in Calls |-> FinIdle]
    /\ finalizedOk = {}

\* ------------------------- finalizePendingInvoices re-invoked for a log
\* One run of generateMonthlyInvoices, the first call of
\* finalizePendingInvoices, which a storage fault may stop at any
\* statement, and the later calls, which are made again and again while
\* storage works.  The driver's insert result carries the id.
RetryInit ==
    /\ Init
    /\ insertResultHasId

GenerateOnce ==
    \/ GenSelect(1)
    \/ GenInsertLog(1)
    \/ GenInsertPending(1)
    \/ GenUpdateLog(1)

FirstFinalize ==
    \/ FinStart(1)
    \/ FinInsert(1)
    \/ FinDelete(1)
    \/ FinUpdateLog(1)
    \/ FinCatch(1)

\* finalizePendingInvoices(logId) is called with the handle at hand.
RetryStart(c) ==
    \E logId \in DOMAIN logs :
      /\ FinSelect(c, logId)
      /\ (\E p \in pendingInvoices : p.generationLogId = logId) =>
           fin'[c].pc = "insert"

\* The call has returned; finalizePendingInvoices is called once more.
Reinvoke(c) ==
    /\ fin[c].pc = "done"
    /\ fin' = [fin EXCEPT ![c] = FinIdle]
    /\ UNCHANGED notEngineVars
    /\ UNCHANGED <<insertResultHasId, now, leases, logs, pendingInvoices,
                   invoices, gen, finalizedOk>>

Refinalize ==
    \E c \in Calls \ {1} :
      \/ RetryStart(c)
      \/ FinInsert(c)
      \/ FinDelete(c)
      \/ FinUpdateLog(c)
      \/ Reinvoke(c)

RetryNext ==
    \/ GenerateOnce
    \/ FirstFinalize
    \/ Refinalize
RetrySpec == RetryInit /\ [][RetryNext]_vars /\ WF_vars(Refinalize)

\* ------------------------------------- the invoice number, on its own
\* One evaluation of the template, for any clock and any nanoid() value.
NumberInit ==
    /\ EngineOff
    /\ MatchOff
    /\ CsvOff
    /\ UploadOff
    /\ PayOff
    /\ OtpOff
    /\ EditOff
    /\ TenancyOff
    /\ \E y \in Years, m \in Months, id \in nanoid(NanoSize) :
         numberArgs = [currentYear |-> y, currentMonth |-> m, id |-> id]
    /\ invoiceNumber = <<>>

BuildInvoiceNumber ==
    /\ invoiceNumber = <<>>
    /\ invoiceNumber' = InvoiceNumberText(numberArgs.currentYear,
                                          numberArgs.currentMonth, numberArgs.id)
    /\ UNCHANGED <<numberArgs, notNumberVars>>

NumberNext == BuildInvoiceNumber
NumberSpec == NumberInit /\ [][NumberNext]_vars

\* ------------------------------------------ payment matching, on its own
MatchInit ==
    /\ EngineOff
    /\ NumberOff
    /\ CsvOff
    /\ UploadOff
    /\ PayOff
    /\ OtpOff
    /\ EditOff
    /\ TenancyOff
    /\ tenants \in TenantTables
    /\ match = MatchIdle

\* One call of autoMatchPaymentToTenant(payment): getDb(), the fetch of the
\* tenants and the two loops, which read nothing but what was fetched.
AutoMatch ==
    /\ match.pc = "idle"
    /\ \E payment \in Payments, db \in BOOLEAN, threw \in BOOLEAN :
         match' = [ pc |-> "done", payment |-> payment,
                    fetched |-> db /\ ~threw,
                    result |-> autoMatchPaymentToTenant(payment, tenants,
                                                        db, threw) ]
    /\ UNCHANGED <<tenants, notMatchVars>>

MatchNext == AutoMatch
MatchSpec == MatchInit /\ [][MatchNext]_vars

\* ----------------------------------------- the payment feed, on its own
CsvInit ==
    /\ EngineOff
    /\ NumberOff
    /\ MatchOff
    /\ UploadOff
    /\ PayOff
    /\ OtpOff
    /\ EditOff
    /\ TenancyOff
    /\ csvFeed \in Feeds
    /\ csvText = FeedText(csvFeed)
    /\ parsed = [done |-> FALSE, payments |-> <<>>]

\* One call of parseCSVPayments(csvContent).
ParseFeed ==
    /\ ~parsed.done
    /\ parsed' = [done |-> TRUE, payments |-> parseCSVPayments(csvText)]
    /\ UNCHANGED <<csvFeed, csvText, notCsvVars>>

CsvNext == ParseFeed
CsvSpec == CsvInit /\ [][CsvNext]_vars

\* ------------------------------- processPaymentUpload (call c), on its own
\* Every upload row exists (it is created before its payments are processed)
\* and every call has its arguments.
UploadInit ==
    /\ EngineOff
    /\ NumberOff
    /\ CsvOff
    /\ PayOff
    /\ OtpOff
    /\ EditOff
    /\ TenancyOff
    /\ tenants = UploadTenants
    /\ match = MatchIdle
    /\ importedPayments = <<>>
    /\ paymentUploads = [u \in UploadIds |-> NewUpload]
    /\ \E uploadId \in [UploadCalls -> UploadIds],
          payments \in [UploadCalls -> PaymentLists] :
         up = [c \in UploadCalls |-> UploadCall(uploadId[c], payments[c])]

\* `const db = await getDb(); if (!db) return {success: false, ...}`
UploadStart(c) ==
    /\ up[c].pc = "start"
    /\ \E db \in BOOLEAN :
         up' = [up EXCEPT ![c] =
                  IF ~db THEN Caught(@, DatabaseNotAvailable)
                  ELSE [@ EXCEPT !.pc = IF up[c].payments = <<>> THEN "update"
                                        ELSE "match"]]
    /\ UNCHANGED <<importedPayments, paymentUploads, notUploadVars>>

\* `const matchResult = await autoMatchPaymentToTenant(payment)`, which
\* reports its own failures as "unmatched".
UploadMatch(c) ==
    /\ up[c].pc = "match"
    /\ up[c].i <= Len(up[c].payments)
    /\ \E db \in BOOLEAN, threw \in BOOLEAN :
         up' = [up EXCEPT ![c].pc = "insert",
                          ![c].fetched = db /\ ~threw,
                          ![c].matchResult =
                            autoMatchPaymentToTenant(up[c].payments[up[c].i],
                                                     tenants, db, threw)]
    /\ UNCHANGED <<importedPayments, paymentUploads, notUploadVars>>

\* `await db.insert(importedPayments).values({...})`, the count, and the
\* step of the loop; an insert that throws is caught.
UploadInsert(c) ==
    /\ up[c].pc = "insert"
    /\ \E threw \in BOOLEAN :
         IF threw
         THEN /\ up' = [up EXCEPT ![c] = Caught(@, InsertError)]
              /\ UNCHANGED importedPayments
         ELSE LET call == up[c]
                  id == Len(importedPayments) + 1
                  counted == Count(call, call.matchResult)
              IN  /\ importedPayments' =
                       Append(importedPayments,
                              ImportedPayment(call.uploadId,
                                              call.payments[call.i],
                                              call.matchResult))
                  /\ up' = [up EXCEPT ![c] =
                       [counted EXCEPT
                          !.inserted =
                             Append(@, [id |-> id,
                                        matchResult |-> call.matchResult]),
                          !.i = @ + 1,
                          !.pc = IF call.i < Len(call.payments) THEN "match"
                                 ELSE "update"]]
    /\ UNCHANGED <<paymentUploads, notUploadVars>>

\* `await db.update(paymentUploads).set({matchedCount, unmatchedCount})
\*  .where(eq(paymentUploads.id, uploadId)); return {success: true, ...}`
UploadUpdate(c) ==
    /\ up[c].pc = "update"
    /\ \E threw \in BOOLEAN :
         IF threw
         THEN /\ up' = [up EXCEPT ![c] = Caught(@, UpdateError)]
              /\ UNCHANGED paymentUploads
         ELSE /\ paymentUploads' =
                   [paymentUploads EXCEPT ![up[c].uploadId] =
                      [matchedCount |-> up[c].matchedCount,
                       unmatchedCount |-> up[c].unmatchedCount]]
              /\ up' = [up EXCEPT ![c].pc = "done",
                                  ![c].result =
                                    UploadResult(TRUE, up[c].matchedCount,
                                                 up[c].unmatchedCount, "")]
    /\ UNCHANGED <<importedPayments, notUploadVars>>

UploadStarts == \E c \in UploadCalls : UploadStart(c)
UploadMatches == \E c \in UploadCalls : UploadMatch(c)
UploadInserts == \E c \in UploadCalls : UploadInsert(c)
UploadUpdates == \E c \in UploadCalls : UploadUpdate(c)

UploadNext ==
    \/ UploadStarts
    \/ UploadMatches
    \/ UploadInserts
    \/ UploadUpdates
UploadSpec == UploadInit /\ [][UploadNext]_vars

\* ---------------------------------------- payments.create (call c), on its own
PayInit ==
    /\ EngineOff
    /\ NumberOff
    /\ MatchOff
    /\ CsvOff
    /\ UploadOff
    /\ OtpOff
    /\ EditOff
    /\ TenancyOff
    /\ invoiceRows \in [InvoiceIds -> {NewInvoice("unpaid"), NewInvoice("overdue")}]
    /\ paymentRows = <<>>
    /\ pay = [c \in PayCalls |-> PayIdle]

\* A statement of the call throws: the mutation fails, nothing is undone.
PayThrows(c) ==
    /\ pay[c].pc \in {"idle", "invoice", "payments", "update"}
    /\ pay' = [pay EXCEPT ![c].pc = "failed"]
    /\ UNCHANGED <<invoiceRows, paymentRows, notPayVars>>

\* `const result = await db.createPayment(input)`
PayCreate(c) ==
    /\ pay[c].pc = "idle"
    /\ \E invoiceId \in InvoiceIds \cup {NoSuchInvoice}, amount \in PayAmounts :
         /\ paymentRows' = Append(paymentRows,
                                  [invoiceId |-> invoiceId, amount |-> amount])
         /\ pay' = [pay EXCEPT ![c].pc = "invoice",
                               ![c].invoiceId = invoiceId,
                               ![c].amount = amount]
    /\ UNCHANGED <<invoiceRows, notPayVars>>

\* `const invoice = await db.getInvoiceById(input.invoiceId); if (invoice)`
PayGetInvoice(c) ==
    /\ pay[c].pc = "invoice"
    /\ pay' = [pay EXCEPT
                 ![c].pc = IF pay[c].invoiceId \in DOMAIN invoiceRows
                           THEN "payments" ELSE "done",
                 ![c].totalAmount =
                    IF pay[c].invoiceId \in DOMAIN invoiceRows
                    THEN parseFloat(invoiceRows[pay[c].invoiceId].totalAmount)
                    ELSE 0]
    /\ UNCHANGED <<invoiceRows, paymentRows, notPayVars>>

\* `const payments = await db.getPaymentsByInvoiceId(input.invoiceId)` and
\* the sum of their amounts.
PayGetPayments(c) ==
    /\ pay[c].pc = "payments"
    /\ pay' = [pay EXCEPT ![c].pc = "update",
                          ![c].totalPaid =
                             SumAmounts(paymentRows, pay[c].invoiceId)]
    /\ UNCHANGED <<invoiceRows, paymentRows, notPayVars>>

\* `await db.updateInvoice(input.invoiceId, {paidAmount:
\*  totalPaid.toFixed(2), status}); return result`
PayUpdateInvoice(c) ==
    /\ pay[c].pc = "update"
    /\ invoiceRows' =
         [invoiceRows EXCEPT
            ![pay[c].invoiceId].paidAmount = toDecimal(pay[c].totalPaid),
            ![pay[c].invoiceId].status =
               PaidStatus(pay[c].totalPaid, pay[c].totalAmount)]
    /\ pay' = [pay EXCEPT ![c].pc = "done"]
    /\ UNCHANGED <<paymentRows, notPayVars>>

PayThrowing == \E c \in PayCalls : PayThrows(c)
PayCreates == \E c \in PayCalls : PayCreate(c)
PayGetsInvoice == \E c \in PayCalls : PayGetInvoice(c)
PayGetsPayments == \E c \in PayCalls : PayGetPayments(c)
PayUpdatesInvoice == \E c \in PayCalls : PayUpdateInvoice(c)

PayNext ==
    \/ PayThrowing
    \/ PayCreates
    \/ PayGetsInvoice
    \/ PayGetsPayments
    \/ PayUpdatesInvoice
PaySpec == PayInit /\ [][PayNext]_vars

\* ------------------ generateAndSendOtp and verifyOtpCode for one user
OtpInit ==
    /\ EngineOff
    /\ NumberOff
    /\ MatchOff
    /\ CsvOff
    /\ UploadOff
    /\ PayOff
    /\ EditOff
    /\ TenancyOff
    /\ otpCodes = {}
    /\ otpNow = 0
    /\ generator = GeneratorIdle
    /\ ver = [v \in Verifiers |-> VerIdle]
    /\ otpHistory = [issued |-> 0, calls |-> 0, rows |-> [i \in OtpIds |-> NoHistory]]

\* Time passes.
OtpTick ==
    /\ otpNow < MaxOtpClock
    /\ otpNow' = otpNow + 1
    /\ UNCHANGED <<otpCodes, generator, ver, otpHistory, notOtpVars>>

\* generateAndSendOtp: the user is read and the code is drawn.
GenerateOtp ==
    /\ generator.pc = "idle"
    /\ otpHistory.issued < MaxOtps
    /\ \E plainOtp \in PlainOtps :
         generator' = [pc |-> "delete", plainOtp |-> plainOtp]
    /\ UNCHANGED <<otpCodes, otpNow, ver, otpHistory, notOtpVars>>

\* `await db.delete(otpCodes).where(eq(otpCodes.userId, userId))`
GenerateDelete ==
    /\ generator.pc = "delete"
    /\ otpCodes' = {}
    /\ generator' = [generator EXCEPT !.pc = "insert"]
    /\ UNCHANGED <<otpNow, ver, otpHistory, notOtpVars>>

\* `await db.insert(otpCodes).values({userId, code: hashedOtp, attempts: 0,
\*  expiresAt}); return {success: true}`
GenerateInsert ==
    /\ generator.pc = "insert"
    /\ otpCodes' = otpCodes \cup
                     {OtpRecord(otpHistory.issued + 1, generator.plainOtp, otpNow)}
    /\ otpHistory' = [otpHistory EXCEPT !.issued = @ + 1]
    /\ generator' = GeneratorIdle
    /\ UNCHANGED <<otpNow, ver, notOtpVars>>

\* verifyOtpCode(userId, plainOtp): the select of the user's row, and what
\* the call decides on the row before its next await.
VerifySelect(v) ==
    /\ ver[v].pc = "idle"
    /\ otpHistory.calls < MaxVerifyCalls
    /\ \E plainOtp \in PlainOtps :
         IF otpCodes = {}
         THEN /\ ver' = [ver EXCEPT ![v] = [VerIdle EXCEPT !.plainOtp = plainOtp,
                                                          !.result = "no otp"]]
              /\ otpHistory' = [otpHistory EXCEPT !.calls = @ + 1]
         ELSE \E otp \in otpCodes :
                LET branch == VerifyBranch(otp, plainOtp, otpNow)
                IN  /\ ver' = [ver EXCEPT ![v] =
                          [ pc |-> "write", plainOtp |-> plainOtp, otp |-> otp,
                            branch |-> branch, result |-> "none",
                            late |-> otpHistory.rows[otp.id].wrongCalls
                                       >= MAX_OTP_ATTEMPTS ]]
                    /\ otpHistory' =
                         [otpHistory EXCEPT
                            !.calls = @ + 1,
                            !.rows[otp.id].compared =
                               IF branch = "invalid"
                               THEN Up(@, MAX_OTP_ATTEMPTS + 1) ELSE @]
    /\ UNCHANGED <<otpCodes, otpNow, generator, notOtpVars>>

\* The statement of the branch taken, all `where(eq(otpCodes.id, otp.id))`,
\* and the return: the delete of the row, the update of attempts to the
\* value read plus 1, or the update of usedAt.
VerifyWrite(v) ==
    /\ ver[v].pc = "write"
    /\ LET otp == ver[v].otp
           branch == ver[v].branch
       IN  /\ otpCodes' =
                IF branch \in {"expired", "exceeded"}
                THEN {row \in otpCodes : row.id # otp.id}
                ELSE { IF row.id # otp.id THEN row
                       ELSE IF branch = "invalid"
                       THEN [row EXCEPT !.attempts = otp.attempts + 1]
                       ELSE [row EXCEPT !.usedAt = TRUE] : row \in otpCodes }
           /\ ver' = [ver EXCEPT ![v].pc = "idle", ![v].result = branch]
           /\ otpHistory' =
                [otpHistory EXCEPT
                   !.rows[otp.id].wrongCalls =
                      IF branch = "invalid" THEN Up(@, MAX_OTP_ATTEMPTS) ELSE @,
                   !.rows[otp.id].accepted =
                      IF branch = "success" THEN Up(@, 2) ELSE @]
    /\ UNCHANGED <<otpNow, generator, notOtpVars>>

VerifySelects == \E v \in Verifiers : VerifySelect(v)
VerifyWrites == \E v \in Verifiers : VerifyWrite(v)

OtpNext ==
    \/ OtpTick
    \/ GenerateOtp
    \/ GenerateDelete
    \/ GenerateInsert
    \/ VerifySelects
    \/ VerifyWrites
OtpSpec == OtpInit /\ [][OtpNext]_vars

\* --------------------------------------------- getEditDistance, on its own
EditInit ==
    /\ EngineOff
    /\ NumberOff
    /\ MatchOff
    /\ CsvOff
    /\ UploadOff
    /\ PayOff
    /\ OtpOff
    /\ TenancyOff
    /\ \E s1 \in EditStrings, s2 \in EditStrings :
         edit = [EditIdle EXCEPT !.s1 = s1, !.s2 = s2]

\* One call of getEditDistance(s1, s2).
EditDistance ==
    /\ edit.pc = "idle"
    /\ edit' = [edit EXCEPT !.pc = "done",
                            !.distance = getEditDistance(edit.s1, edit.s2)]
    /\ UNCHANGED notEditVars

EditNext == EditDistance
EditSpec == EditInit /\ [][EditNext]_vars

\* ------------------------------ leases.create and leases.terminate
\* The calls are made one after the other, with storage working.  Every
\* unit starts vacant and without a lease.
TenancyInit ==
    /\ EngineOff
    /\ NumberOff
    /\ MatchOff
    /\ CsvOff
    /\ UploadOff
    /\ PayOff
    /\ OtpOff
    /\ EditOff
    /\ units = [u \in UnitIds |-> "vacant"]
    /\ leaseRows = <<>>
    /\ tenancy = TenancyIdle

\* leases.create: `await db.updateUnit(input.unitId, {status: "occupied"})`
CreateOccupies ==
    /\ tenancy.pc = "idle"
    /\ Len(leaseRows) < MaxLeaseRows
    /\ \E unitId \in UnitIds :
         /\ units' = [units EXCEPT ![unitId] = "occupied"]
         /\ tenancy' = [TenancyIdle EXCEPT !.pc = "createLease",
                                           !.unitId = unitId]
    /\ UNCHANGED <<leaseRows, notTenancyVars>>

\* leases.create: `return await db.createLease({...input, ...})`; the
\* status of the new row is the column's default, active.
CreateLease ==
    /\ tenancy.pc = "createLease"
    /\ leaseRows' = Append(leaseRows,
                           [unitId |-> tenancy.unitId, status |-> "active"])
    /\ tenancy' = TenancyIdle
    /\ UNCHANGED <<units, notTenancyVars>>

\* leases.terminate: `const lease = await db.getLeaseById(input.id)`; an
\* id without a row throws "Lease not found" and changes nothing.
TerminateGetsLease ==
    /\ tenancy.pc = "idle"
    /\ \E id \in DOMAIN leaseRows :
         tenancy' = [pc |-> "updateUnit", unitId |-> leaseRows[id].unitId,
                     leaseId |-> id]
    /\ UNCHANGED <<units, leaseRows, notTenancyVars>>

\* leases.terminate: `await db.updateUnit(lease.unitId, {status: "vacant"})`
TerminateVacates ==
    /\ tenancy.pc = "updateUnit"
    /\ units' = [units EXCEPT ![tenancy.unitId] = "vacant"]
    /\ tenancy' = [tenancy EXCEPT !.pc = "terminateLease"]
    /\ UNCHANGED <<leaseRows, notTenancyVars>>

\* leases.terminate: `return await db.terminateLease(input.id, {...})`
TerminateLease ==
    /\ tenancy.pc = "terminateLease"
    /\ leaseRows' = [leaseRows EXCEPT ![tenancy.leaseId].status = "terminated"]
    /\ tenancy' = TenancyIdle
    /\ UNCHANGED <<units, notTenancyVars>>

TenancyNext ==
    \/ CreateOccupies
    \/ CreateLease
    \/ TerminateGetsLease
    \/ TerminateVacates
    \/ TerminateLease
TenancySpec == TenancyInit /\ [][TenancyNext]_vars

\* ================================================================ claims

\* The drafts of lease l among rows.
RowsOf(rows, l) == {p \in rows : p.leaseId = l}

\* C1: a run that returns success has created exactly one draft for each
\* lease that was active when it fetched the leases and none for any other
\* lease, each with the lease's rent and service charge, no utilities, and
\* their sum as the total; the rows it counts are the rows it stored.
C1_OneDraftPerActiveLease ==
    [][\A r \in Runs :
         /\ (gen[r].pc = "insertPending" /\ gen'[r].pc = "updateLog") =>
              /\ gen'[r].generatedInvoices \cap pendingInvoices = {}
              /\ pendingInvoices' = pendingInvoices \cup gen'[r].generatedInvoices
         /\ (gen[r].pc = "updateLog" /\ gen'[r].result.kind = "success") =>
              \A l \in LeaseIds :
                LET rows == RowsOf(gen[r].generatedInvoices, l) IN
                IF l \in gen[r].active
                THEN /\ Cardinality(rows) = 1
                     /\ \A p \in rows :
                          /\ p.run = r
                          /\ p.rentAmount = leases[l].monthlyRent
                          /\ p.serviceChargeAmount = leases[l].serviceCharge
                          /\ p.utilitiesAmount = 0
                          /\ p.totalAmount =
                               p.rentAmount + p.serviceChargeAmount + 0
                ELSE rows = {}
      ]_vars

\* A run has returned success for a batch of two leases.
C1_Witness ==
    \E r \in Runs : gen[r].result.kind = "success" /\ gen[r].result.n = 2

\* The invoice made from draft p by call c, among inv.
InvoicesFor(inv, p, c) ==
    {i \in inv : i.call = c /\ i.invoiceNumber = p.invoiceNumber}

\* C2: when finalizePendingInvoices(L) returns success, every draft of L it
\* fetched has exactly one invoice made by the call, with the draft's lease,
\* number and four amounts, nothing paid and status unpaid, and the call
\* made no other invoice.
C2_FinalizeRoundTrip ==
    [][\A c \in Calls :
         (fin[c].pc = "update" /\ fin'[c].result.kind = "success") =>
           LET made == {i \in invoices' : i.call = c} IN
           /\ fin'[c].result.n = Cardinality(made)
           /\ Cardinality(made) = Cardinality(fin[c].pending)
           /\ \A i \in made : \E p \in fin[c].pending :
                i.invoiceNumber = p.invoiceNumber
           /\ \A p \in fin[c].pending :
                /\ p.generationLogId = fin[c].logId
                /\ Cardinality(InvoicesFor(invoices', p, c)) = 1
                /\ \A i \in InvoicesFor(invoices', p, c) :
                     /\ i.leaseId = p.leaseId
                     /\ i.rentAmount = p.rentAmount
                     /\ i.serviceChargeAmount = p.serviceChargeAmount
                     /\ i.utilitiesAmount = p.utilitiesAmount
                     /\ i.totalAmount = p.totalAmount
                     /\ i.paidAmount = 0
                     /\ i.status = "unpaid"
      ]_vars

\* A call has returned success for two drafts.
C2_Witness ==
    \E c \in Calls : fin[c].result.kind = "success" /\ fin[c].result.n = 2

\* C3: a finalizePendingInvoices(L) called after one that returned success
\* finalizes nothing: it reports no invoice finalized (a count of zero, or
\* the bare return of the code) and changes no table.
C3_SecondCallIsNoOp ==
    [][\A c \in Calls : \A logId \in finalizedOk :
         FinSelect(c, logId) =>
           /\ fin'[c].pc = "done"
           /\ fin'[c].result.kind \in {"success", "undefined"}
           /\ fin'[c].result.n = 0
           /\ UNCHANGED <<invoices, pendingInvoices, logs>>
      ]_vars

\* C4: whenever a call has fetched the drafts of its log, each of them is
\* still a draft or has an invoice with its number, wherever the call stops.
C4_NoDraftLost ==
    \A c \in Calls :
      fin[c].pc \in {"insert", "delete", "update"} =>
        \A p \in fin[c].pending :
          \/ p \in pendingInvoices
          \/ \E i \in invoices : i.invoiceNumber = p.invoiceNumber

\* C5: no two invoices share an invoice number, so no draft is ever
\* invoiced twice, whatever calls overlap, fail or are repeated.
C5_NoInvoiceTwice ==
    \A i, j \in invoices : i.invoiceNumber = j.invoiceNumber => i = j

\* Two calls have ended in an error while the invoices of drafts that are
\* still stored exist: the insert went through once and was then repeated.
C5_Witness ==
    /\ \A c \in Calls : fin[c].result.kind = "error"
    /\ \E p \in pendingInvoices : \E i \in invoices :
         i.invoiceNumber = p.invoiceNumber

\* C6: a log's status changes only from pending_review, and only to
\* finalized or failed.
C6_LogStatusTransitions ==
    [][\A id \in DOMAIN logs :
         logs'[id].status # logs[id].status =>
           /\ logs[id].status = "pending_review"
           /\ logs'[id].status \in {"finalized", "failed"}
      ]_vars

\* The log rows run r has inserted.
LogsOfRun(t, r) == {id \in DOMAIN t : t[id].run = r}

\* C7: a run that found an active lease leaves exactly one log row when it
\* returns, with success or with an error.
C7_OneLogPerRun ==
    [][\A r \in Runs :
         (gen[r].pc \in {"insertLog", "insertPending", "updateLog"}
            /\ gen'[r].pc = "done") =>
           Cardinality(LogsOfRun(logs', r)) = 1
      ]_vars

\* C8: no draft carries the id of a log whose status is finalized.
C8_NoDraftOfFinalizedLog ==
    \A id \in DOMAIN logs :
      logs[id].status = "finalized" =>
        \A p \in pendingInvoices : p.generationLogId # id

\* C9: every draft carries the id of the log row its own run inserted.
C9_DraftTaggedWithOwnLog ==
    \A p \in pendingInvoices :
      /\ p.generationLogId \in DOMAIN logs
      /\ logs[p.generationLogId].run = p.run

\* C10: the drafts of one billing month all come from one run.
C10_OneRunPerPeriod ==
    \A p, q \in pendingInvoices :
      p.periodStart = q.periodStart => p.run = q.run

\* A step that records a failure in the generation logs: a row with status
\* failed is added, or a row's status becomes failed.
FailedLogRecorded ==
    \/ \E id \in DOMAIN logs' \ DOMAIN logs : logs'[id].status = "failed"
    \/ \E id \in DOMAIN logs :
         logs[id].status # "failed" /\ logs'[id].status = "failed"

\* C11: a call that meets unreachable storage or a failing storage statement
\* returns the {success: false, error} object and never returns without a
\* result: a run that ends at its first step while there are active leases,
\* and a finalize that ends at its first step while its log has drafts,
\* were stopped by storage; with unreachable storage no table is written.
C11_StructuredFailure ==
    [][/\ \A r \in Runs :
            (gen[r].pc = "idle" /\ gen'[r].pc = "done"
               /\ SelectActiveLeases(leases) # {}) =>
              /\ gen'[r].result.kind = "error"
              /\ UNCHANGED <<pendingInvoices, invoices, leases>>
       /\ \A c \in Calls : \A logId \in DOMAIN logs :
            (FinSelect(c, logId) /\ fin'[c].pc = "done"
               /\ \E p \in pendingInvoices : p.generationLogId = logId) =>
              /\ fin'[c].result.kind = "error"
              /\ UNCHANGED <<pendingInvoices, invoices, logs, leases>>
      ]_vars

\* C12: a call stopped by a storage exception leaves a log with status
\* failed.  The catch block of a run makes one follow-up insert, which
\* storage may refuse (the logs are then unchanged); the catch block of
\* finalizePendingInvoices makes no follow-up write that could be refused.
C12_FailureIsLogged ==
    [][/\ \A r \in Runs :
            (gen[r].pc # "done" /\ gen'[r].result.kind = "error") =>
              (FailedLogRecorded \/ UNCHANGED logs)
       /\ \A c \in Calls :
            (fin[c].pc # "done" /\ fin'[c].result.kind = "error") =>
              FailedLogRecorded
      ]_vars

\* C13: a run that fetches the leases while none is active ends there and
\* writes nothing: no log row, no draft, every table unchanged.
C13_NoActiveLeaseNoWrite ==
    [][\A r \in Runs :
         (gen[r].pc = "idle" /\ gen'[r].pc # "idle"
            /\ gen'[r].result.kind # "error"
            /\ \A l \in LeaseIds : leases[l].status # "active") =>
           /\ gen'[r].pc = "done"
           /\ UNCHANGED <<logs, pendingInvoices, invoices, leases>>
      ]_vars

\* A run has ended without a result after every lease was ended, while the
\* drafts and the log of an earlier run are stored.
C13_Witness ==
    /\ \A l \in LeaseIds : leases[l].status = "terminated"
    /\ gen[1].result.kind = "success"
    /\ gen[2].result.kind = "undefined"
    /\ pendingInvoices # {}

\* C14: an invoice number is INV-, the four digits of the current year, the
\* two digits of the current month (01 to 12), a dash, and six characters
\* that are each an upper-case letter A-Z or a digit, for every value of
\* nanoid(6).
C14_InvoiceNumberFormat ==
    invoiceNumber # <<>> =>
      /\ Len(invoiceNumber) = 17
      /\ SubSeq(invoiceNumber, 1, 4) = <<"I", "N", "V", "-">>
      /\ \A i \in 5..10 : invoiceNumber[i] \in Range(DigitChars)
      /\ NumberOf(SubSeq(invoiceNumber, 5, 8)) = numberArgs.currentYear
      /\ NumberOf(SubSeq(invoiceNumber, 9, 10)) = numberArgs.currentMonth + 1
      /\ invoiceNumber[11] = "-"
      /\ \A i \in 12..17 :
           invoiceNumber[i] \in Range(UpperChars) \cup Range(DigitChars)

\* The last nine digits of each phone number of the model, written out.
NineDigits(phone) ==
    CASE phone = <<"0", "7", "1", "2", "-", "3", "4", "5", "-", "6", "7", "8">>
        -> <<"7", "1", "2", "3", "4", "5", "6", "7", "8">>
      [] phone = <<"+", "2", "5", "4", " ", "7", "1", "2", " ", "3", "4", "5",
                " ", "6", "7", "8">>
        -> <<"7", "1", "2", "3", "4", "5", "6", "7", "8">>
      [] phone = <<"0", "7", "9", "8", "7", "6", "5", "4", "3", "2">>
        -> <<"7", "9", "8", "7", "6", "5", "4", "3", "2">>
      [] phone = <<"n", "/", "a">>
        -> <<>>
      [] phone = <<"0", "7", "1", "2", "3", "4", "5", "6", "7", "8">>
        -> <<"7", "1", "2", "3", "4", "5", "6", "7", "8">>
      [] phone = <<"+", "2", "5", "4", " ", "7", "9", "8", " ", "7", "6", "5",
                " ", "4", "3", "2">>
        -> <<"7", "9", "8", "7", "6", "5", "4", "3", "2">>
      [] phone = <<"-", "-", "-">>
        -> <<>>
      [] phone = <<"0", "7", "0", "0", "0", "0", "0", "0", "0", "0">>
        -> <<"7", "0", "0", "0", "0", "0", "0", "0", "0">>

\* The tenants, by position, whose phone has the last nine digits of the
\* payment's phone; a payment or a tenant without a phone has none.
PhoneHits ==
    IF match.payment.phoneNumber = <<>> THEN {}
    ELSE { i \in DOMAIN tenants :
             /\ tenants[i].phone # <<>>
             /\ NineDigits(tenants[i].phone) = NineDigits(match.payment.phoneNumber) }

\* The first position of a non-empty set of positions.
First(S) == CHOOSE i \in S : \A k \in S : i <= k

\* The similarity of the payer name to the tenant at position i.
NameSimilarity(i) ==
    calculateSimilarity(match.payment.payerName, FullName(tenants[i]))

\* The positions of the tenants no other tenant is more similar than.
MostSimilar ==
    { i \in DOMAIN tenants :
        \A k \in DOMAIN tenants : ~Exceeds(NameSimilarity(k), NameSimilarity(i)) }

\* C15: once the tenants are fetched, a payment whose phone has the same
\* last nine digits as a tenant's phone is matched with confidence 100 to
\* the first such tenant in the order of the fetch, whatever the payer name.
C15_PhoneMatchWins ==
    (match.pc = "done" /\ match.fetched /\ PhoneHits # {}) =>
      match.result = MatchResult(tenants[First(PhoneHits)].id, "matched", 100)

\* A payment was matched by its phone to the first of two tenants with that
\* phone, while its payer name is the name of neither.
C15_Witness ==
    /\ match.pc = "done" /\ match.fetched
    /\ Cardinality(PhoneHits) = 2
    /\ match.result.matchConfidence = 100
    /\ match.result.tenantId = tenants[1].id
    /\ \A i \in DOMAIN tenants : ~Exceeds(NameSimilarity(i), Number(50))

\* C16: once the tenants are fetched, a payment with no phone match whose
\* payer name is at most 70% similar to every tenant's full name is
\* unmatched and carries no tenant.
C16_WeakNameUnmatched ==
    (/\ match.pc = "done" /\ match.fetched /\ PhoneHits = {}
     /\ \A i \in DOMAIN tenants : ~Exceeds(NameSimilarity(i), Number(70))) =>
      /\ match.result.matchStatus = "unmatched"
      /\ match.result.tenantId = NoTenant

\* A payment is unmatched although a tenant's name is exactly 70% similar.
C16_Witness ==
    /\ match.pc = "done" /\ match.fetched /\ PhoneHits = {}
    /\ \E i \in DOMAIN tenants : NameSimilarity(i) = Percent(700, 10)
    /\ \A i \in DOMAIN tenants : ~Exceeds(NameSimilarity(i), Number(70))
    /\ match.result.matchStatus = "unmatched"
    /\ match.result.matchConfidence = 70

\* C17: once the tenants are fetched, a payment with no phone match whose
\* highest name similarity is above 70% is matched to the first tenant that
\* reaches that similarity, with the rounded similarity as confidence.
C17_StrongNameMatched ==
    (/\ match.pc = "done" /\ match.fetched /\ PhoneHits = {}
     /\ \E i \in DOMAIN tenants : Exceeds(NameSimilarity(i), Number(70))) =>
      match.result = MatchResult(tenants[First(MostSimilar)].id, "matched",
                                 round(NameSimilarity(First(MostSimilar))))

\* The same for a highest similarity of at least 70.5%, which rounds to 71.
C17_RoundedAbove70 ==
    (/\ match.pc = "done" /\ match.fetched /\ PhoneHits = {}
     /\ \E i \in DOMAIN tenants : ~Exceeds(Percent(705, 10), NameSimilarity(i))) =>
      match.result = MatchResult(tenants[First(MostSimilar)].id, "matched",
                                 round(NameSimilarity(First(MostSimilar))))

\* The position of the first column of a layout that holds col, 0 if none.
ColumnOf(layout, col) ==
    IF \E k \in DOMAIN layout : layout[k].col = col
    THEN CHOOSE k \in DOMAIN layout :
           /\ layout[k].col = col
           /\ \A j \in DOMAIN layout : layout[j].col = col => k <= j
    ELSE 0

\* A data row of the feed has a cell in the column that holds col.
HasCell(row, layout, col) ==
    /\ row.kind \in {"full", "cut"}
    /\ ColumnOf(layout, col) \in 1..Len(Cells(row, layout))

\* A data row is a payment: it has at least two cells, its amount cell
\* stands for a number above 0, and its payer name is not blank (a feed
\* without a name column names every payer "Unknown").
IsPayment(row, layout) ==
    /\ Len(Cells(row, layout)) >= 2
    /\ HasCell(row, layout, "amount")
    /\ ~row.amount.nan
    /\ row.amount.num > 0
    /\ ColumnOf(layout, "name") # 0 =>
         (HasCell(row, layout, "name") /\ row.name.name # <<>>)

\* The rows of the feed that are payments, in the order of the feed.
PaymentRows ==
    LET Test(row) == IsPayment(row, csvFeed.layout)
    IN  SelectSeq(csvFeed.rows, Test)

\* C18: parseCSVPayments returns, in the order of the feed, exactly the
\* data rows with at least two cells, an amount above 0 and a payer name
\* that is not blank, each with its amount and its name; rows with a
\* negative, zero or unparsable amount or a blank name are dropped, and a
\* feed of a header alone gives the empty result.
C18_ParsedRows ==
    parsed.done =>
      /\ Len(parsed.payments) = Len(PaymentRows)
      /\ \A k \in DOMAIN parsed.payments :
           LET payment == parsed.payments[k]
               row == PaymentRows[k]
           IN  /\ ~payment.amount.nan
               /\ payment.amount.num * row.amount.den
                    = row.amount.num * payment.amount.den
               /\ payment.payerName =
                    (IF ColumnOf(csvFeed.layout, "name") # 0
                     THEN row.name.name ELSE Unknown)
      /\ csvFeed.rows = <<>> => parsed.payments = <<>>

\* A feed of two full rows was parsed, the second with a negative amount:
\* only the first row is returned.
C18_Witness ==
    /\ parsed.done
    /\ Len(csvFeed.rows) = 2
    /\ \A k \in 1..2 : csvFeed.rows[k].kind = "full"
    /\ csvFeed.rows[1].amount.num > 0
    /\ csvFeed.rows[2].amount.num < 0
    /\ Len(parsed.payments) = 1
    /\ parsed.payments[1].amount.num > 0

\* The rows a call has inserted, by the ids the inserts gave them.
UploadedRows(c) ==
    [k \in DOMAIN up[c].inserted |-> importedPayments[up[c].inserted[k].id]]

\* The rows of the table that carry uploadId u, and the inserts made for u.
RowsWith(u) == {id \in DOMAIN importedPayments : importedPayments[id].uploadId = u}
InsertsFor(u) ==
    { <<c, k>> \in UploadCalls \X (1..MaxPayments) :
        up[c].uploadId = u /\ k \in DOMAIN up[c].inserted }

\* A call that returned success: its rows are one per payment, in the
\* order of the payments, with its uploadId, the payment's payer and the
\* match outcome of the payment; no row with an uploadId comes from
\* anywhere but an insert for it; the counts returned count these rows.
UploadStored(c) ==
    LET call == up[c]
        rows == UploadedRows(c)
    IN  /\ Len(call.inserted) = Len(call.payments)
        /\ \A k \in DOMAIN call.inserted :
             /\ call.inserted[k].id \in DOMAIN importedPayments
             /\ \A j \in 1..(k - 1) : call.inserted[j].id < call.inserted[k].id
             /\ rows[k].uploadId = call.uploadId
             /\ rows[k].payerName = call.payments[k].payerName
             /\ rows[k].phoneNumber = call.payments[k].phoneNumber
             /\ rows[k].tenantId = call.inserted[k].matchResult.tenantId
             /\ rows[k].matchStatus = call.inserted[k].matchResult.matchStatus
             /\ rows[k].matchConfidence
                  = call.inserted[k].matchResult.matchConfidence
        /\ Cardinality(RowsWith(call.uploadId))
             = Cardinality(InsertsFor(call.uploadId))
        /\ call.result.matchedCount
             = Cardinality({k \in DOMAIN rows : rows[k].matchStatus = "matched"})
        /\ call.result.matchedCount + call.result.unmatchedCount
             = Len(call.payments)

\* The step in which call c returns success.
UploadSucceeds(c) ==
    /\ up[c].pc # "done"
    /\ up'[c].pc = "done"
    /\ up'[c].result.success

\* C19: when processPaymentUpload succeeds, the call has inserted exactly
\* one row with its uploadId per input payment, in input order, each with
\* the match outcome of its payment; the returned matchedCount is the
\* number of those rows stored as matched, matchedCount + unmatchedCount
\* is the number of input payments, and on return the counters of the
\* paymentUploads row are the returned counts.
C19_UploadSucceeded ==
    /\ [](\A c \in UploadCalls :
            (up[c].pc = "done" /\ up[c].result.success) => UploadStored(c))
    /\ [][\A c \in UploadCalls :
            UploadSucceeds(c) =>
              paymentUploads'[up[c].uploadId] =
                [matchedCount |-> up'[c].result.matchedCount,
                 unmatchedCount |-> up'[c].result.unmatchedCount]]_vars

\* A call has returned success for two payments, one matched and one not,
\* and a row of another call lies between its two rows.
C19_Witness ==
    \E c \in UploadCalls :
      /\ up[c].pc = "done"
      /\ up[c].result.success
      /\ Len(up[c].payments) = 2
      /\ up[c].result.matchedCount = 1
      /\ up[c].result.unmatchedCount = 1
      /\ up[c].inserted[2].id > up[c].inserted[1].id + 1
      /\ paymentUploads[up[c].uploadId].matchedCount = 1

\* The step in which the insert of call c fails: the statement is taken and
\* no row is added.
InsertFails(c) ==
    /\ up[c].pc = "insert"
    /\ up'[c] # up[c]
    /\ importedPayments' = importedPayments

\* C20: if the insert of the k-th row fails, the call returns success =
\* false with an error, having inserted k - 1 rows, which remain; the call
\* matches and inserts nothing afterwards, and it leaves the counters of
\* the paymentUploads rows as they were.
C20_InsertFailureAborts ==
    /\ [](\A c \in UploadCalls :
            (up[c].pc = "done" /\ up[c].result.error = InsertError) =>
              /\ ~up[c].result.success
              /\ up[c].i \in DOMAIN up[c].payments
              /\ Len(up[c].inserted) = up[c].i - 1
              /\ \A k \in DOMAIN up[c].inserted :
                   /\ up[c].inserted[k].id \in DOMAIN importedPayments
                   /\ UploadedRows(c)[k].uploadId = up[c].uploadId
                   /\ UploadedRows(c)[k].payerName = up[c].payments[k].payerName)
    /\ [][\A c \in UploadCalls :
            /\ InsertFails(c) =>
                 /\ up'[c].pc = "done"
                 /\ ~up'[c].result.success
                 /\ up'[c].result.error # ""
                 /\ up'[c].inserted = up[c].inserted
                 /\ paymentUploads' = paymentUploads
            /\ up[c].pc = "done" => up'[c] = up[c]
            /\ (up'[c] # up[c] /\ ~UploadSucceeds(c)) =>
                 paymentUploads' = paymentUploads
            /\ \A id \in DOMAIN importedPayments :
                 /\ id \in DOMAIN importedPayments'
                 /\ importedPayments'[id] = importedPayments[id]]_vars

\* The insert of the second row of a call has failed: the first row is in
\* the table, and the other call went on to insert a row after the failure.
C20_Witness ==
    \E c \in UploadCalls :
      /\ up[c].pc = "done"
      /\ up[c].result.error = InsertError
      /\ up[c].i = 2
      /\ Len(up[c].inserted) = 1
      /\ Len(importedPayments) > up[c].inserted[1].id
      /\ paymentUploads[up[c].uploadId] = NewUpload

\* C21: if the lookup of the tenants fails while a payment of an upload is
\* matched, the batch is aborted: no row is written for that payment, the
\* rows written before stay, and the call returns success = false.
C21_MatchFailureAborts ==
    [][\A c \in UploadCalls :
         (up[c].pc = "insert" /\ ~up[c].fetched /\ up'[c] # up[c]) =>
           /\ importedPayments' = importedPayments
           /\ up'[c].pc = "done"
           /\ ~up'[c].result.success]_vars

\* The sum of the amounts of the payments on file for an invoice, in cents.
RECURSIVE PaidFor(_, _)
PaidFor(rows, invoiceId) ==
    IF rows = <<>> THEN 0
    ELSE PaidFor(Tail(rows), invoiceId)
           + (IF Head(rows).invoiceId = invoiceId THEN Head(rows).amount ELSE 0)

\* The invoice's paidAmount and status are those of the payments on file.
Settled(rows, invoice, invoiceId) ==
    LET sum == PaidFor(rows, invoiceId)
    IN  /\ invoice.paidAmount = sum
        /\ invoice.status =
             (IF sum >= invoice.totalAmount THEN "fully_paid"
              ELSE IF sum > 0 THEN "partially_paid"
              ELSE "unpaid")

\* The step in which call c of payments.create completes.
PayCompletes(c) == pay[c].pc # "done" /\ pay'[c].pc = "done"

\* C22: when payments.create completes for an existing invoice, the
\* invoice's paidAmount is the sum of the amounts of all payments recorded
\* against it and its status is fully_paid, partially_paid or unpaid as
\* that sum is at least totalAmount, between 0 and totalAmount, or neither;
\* no other field of the invoice changes.
C22_PaidAmountIsSum ==
    [][\A c \in PayCalls :
         (PayCompletes(c) /\ pay[c].invoiceId \in InvoiceIds) =>
           LET id == pay[c].invoiceId
           IN  /\ Settled(paymentRows', invoiceRows'[id], id)
               /\ invoiceRows'[id].leaseId = invoiceRows[id].leaseId
               /\ invoiceRows'[id].totalAmount = invoiceRows[id].totalAmount]_vars

\* C27: once all the calls of payments.create have completed, every invoice
\* that was paid on has the paidAmount and the status of the payments on
\* file for it.
C27_ConcurrentTotals ==
    (\A c \in PayCalls : pay[c].pc = "done") =>
      \A c \in PayCalls :
        pay[c].invoiceId \in InvoiceIds =>
          Settled(paymentRows, invoiceRows[pay[c].invoiceId], pay[c].invoiceId)

\* C23: once MAX_OTP_ATTEMPTS calls of verifyOtpCode with a wrong code have
\* been made for a row, no later call for the user succeeds against it.
C23_AttemptLimit ==
    \A v \in Verifiers : ver[v].result = "success" => ~ver[v].late

\* C25: a row is accepted once: no second call of verifyOtpCode succeeds
\* against it.
C25_SingleUse ==
    \A id \in OtpIds : otpHistory.rows[id].accepted <= 1

\* C26: whatever the interleaving of the calls of verifyOtpCode, at most
\* MAX_OTP_ATTEMPTS wrong codes are compared with one row.
C26_AtMostFiveGuesses ==
    \A id \in OtpIds : otpHistory.rows[id].compared <= MAX_OTP_ATTEMPTS

\* The Levenshtein distance of a and b by its recurrence: the distance of
\* the first i characters of a and the first j characters of b.
Least(S) == CHOOSE n \in S : \A k \in S : n <= k
RECURSIVE Levenshtein(_, _, _, _)
Levenshtein(a, b, i, j) ==
    IF i = 0 THEN j
    ELSE IF j = 0 THEN i
    ELSE Least({ Levenshtein(a, b, i - 1, j) + 1,
                 Levenshtein(a, b, i, j - 1) + 1,
                 Levenshtein(a, b, i - 1, j - 1)
                   + (IF a[i] = b[j] THEN 0 ELSE 1) })

\* C24: getEditDistance(s1, s2) is the Levenshtein distance of s1 and s2
\* (an insertion, a deletion and a substitution cost 1 each), also when s1
\* or s2 is empty.
C24_EditDistanceIsLevenshtein ==
    edit.pc = "done" =>
      edit.distance = Levenshtein(edit.s1, edit.s2, Len(edit.s1), Len(edit.s2))

\* The distance of two strings of full length was computed, and it is
\* neither that of equal strings nor that of strings without a common part.
C24_Witness ==
    /\ edit.pc = "done"
    /\ Len(edit.s1) = MaxEditLen
    /\ Len(edit.s2) = MaxEditLen
    /\ edit.distance \in 2..(MaxEditLen - 1)

\* C28: once the invoices of a log have been inserted, re-invoking
\* finalizePendingInvoices for the log while storage works leads to the
\* log being finalized with no draft left for it, wherever the earlier
\* call stopped.
C28_RefinalizeCompletes ==
    (invoices # {} /\ logs # <<>>)
      ~> (/\ logs # <<>>
          /\ logs[1].status = "finalized"
          /\ DeletePending(pendingInvoices, 1) = pendingInvoices)

\* C29: after any sequence of leases.create and leases.terminate calls, a
\* unit whose status is vacant has no lease with status active.
C29_VacantUnitHasNoActiveLease ==
    tenancy.pc = "idle" =>
      \A u \in UnitIds :
        units[u] = "vacant" =>
          \A id \in DOMAIN leaseRows :
            leaseRows[id].unitId = u => leaseRows[id].status # "active"

\* C30: a payment whose phone field holds no digit gets no phone number
\* match: the outcome is that of the same payment without a phone.
C30_NoDigitsNoPhoneMatch ==
    (/\ match.pc = "done" /\ match.fetched
     /\ \A k \in DOMAIN match.payment.phoneNumber :
          ~IsDigit(match.payment.phoneNumber[k])) =>
      match.result =
        MatchTenants([match.payment EXCEPT !.phoneNumber = <<>>], tenants)

====
